---- MODULE Spec2Model ----
(***************************************************************************)
(* hyperclaude coordination store: the per-session lock store, trigger     *)
(* store and worker-state store of src/hyperclaude/protocols.py, and the   *)
(* CLI commands of src/hyperclaude/cli.py that drive them.                 *)
(*                                                                         *)
(* Text (a file's content, a path) is a sequence of one-character strings, *)
(* so that "\n".join, str.strip and str.split are computed as Python       *)
(* computes them.                                                          *)
(***************************************************************************)
EXTENDS Integers, Sequences, FiniteSets, TLC

\* ------------------------------------------------------------------ bounds

\* Workers that call the lock store: ids 0 .. NumWorkers-1.
NumWorkers == 2
Workers == 0 .. (NumWorkers - 1)
\* Largest worker count a session is registered with.
MaxWorkers == 3

\* config.DEFAULT_CONFIG["default_workers"], used for an unregistered session.
DefaultWorkers == 6

\* The clock counts poll intervals: time.sleep(0.5) is one tick, a second two.
PollTicks == 1
TicksPerSecond == 2
\* The clock values at which an await may still be started, and the largest
\* timeout (in seconds) it is given.
MaxTime == 4
MaxTimeout == 1

\* ------------------------------------------------------------------- text

NL == "\n"
SP == " "

\* The paths callers ask for: two plain names and one that ends in a blank
\* (config.validate_lock_paths accepts all three).
PathA == <<"a">>
PathB == <<"b">>
PathASp == <<"a", SP>>
Paths == {PathA, PathB, PathASp}

\* The files arguments callers pass: the empty list, one path, two paths, a
\* path given twice, the blank-ended path last and not last.
FileLists ==
  { <<>>, <<PathA>>, <<PathB>>, <<PathASp>>,
    <<PathA, PathB>>, <<PathA, PathA>>, <<PathASp, PathB>> }

\* The content of a file that does not exist (no text holds this character).
NoFile == <<"<absent>">>

\* str.isspace for the characters of the model.
IsSpace(c) == c \in {SP, NL}

RECURSIVE LStrip(_)
LStrip(s) == IF s # <<>> /\ IsSpace(Head(s)) THEN LStrip(Tail(s)) ELSE s

RECURSIVE RStrip(_)
RStrip(s) ==
  IF s # <<>> /\ IsSpace(s[Len(s)]) THEN RStrip(SubSeq(s, 1, Len(s) - 1)) ELSE s

\* str.strip()
Strip(s) == LStrip(RStrip(s))

\* s.split("\n"): the pieces between newlines; "" splits into [""].
RECURSIVE SplitFrom(_, _)
SplitFrom(s, cur) ==
  IF s = <<>> THEN <<cur>>
  ELSE IF Head(s) = NL THEN <<cur>> \o SplitFrom(Tail(s), <<>>)
  ELSE SplitFrom(Tail(s), Append(cur, Head(s)))

SplitLines(s) == SplitFrom(s, <<>>)

\* "\n".join(files)
RECURSIVE JoinLines(_)
JoinLines(files) ==
  IF files = <<>> THEN <<>>
  ELSE IF Len(files) = 1 THEN files[1]
  ELSE files[1] \o <<NL>> \o JoinLines(Tail(files))

Range(f) == {f[i] : i \in DOMAIN f}

\* f"worker-{worker_id}": the stem of a worker's lock file.
WorkerStem(w) == "worker-" \o ToString(w)

\* ------------------------------------------------------------------ state

VARIABLES
  lockFiles,   \* locks/worker-{w}.lock: its content, or NoFile
  ret,         \* what the last store call returned
  pc,          \* where each worker's running call stands
  req,         \* the files argument of each worker's running (or last) call
  todo,        \* the lock files a running scan globbed and has not read yet
  found,       \* the conflicts a running scan has collected
  master,      \* the workers holding flock(.master.lock): none or one
  out,         \* what each worker's last call returned
  meta,        \* session.json of the session: its worker count, or NoMeta
  triggers,    \* the names of the marker files in triggers/
  workerFiles, \* state/workers/{i}.json: its text, or NoState
  protocol,    \* state/protocol: the protocol name, or NoValue
  phase,       \* state/phase: the phase name, or NoValue
  resultFiles, \* the workers i with a results/worker-{i}.txt
  last,        \* the last command run: its name, target and task
  now,         \* time.time(), in poll intervals of 0.5 s
  waiter,      \* the await_trigger call in progress, or its result
  reader,      \* the get_worker_state call in progress, or its result
  activeFile,  \* ~/.hyperclaude/active_session: its text, or NoFile
  sessions,    \* sessions/{name}/ of every session name: its namespace
  procs        \* the store calls running in the sessions, one per process

\* The registry of sessions and the calls running in them.
regVars == <<activeFile, sessions, procs>>

\* The calls that run beside the workers' commands, the clock, and the
\* sessions beside the one the commands run in.
bgVars == <<now, waiter, reader, regVars>>

storeVars ==
  <<meta, triggers, workerFiles, protocol, phase, resultFiles, last, bgVars>>

vars == <<lockFiles, ret, pc, req, todo, found, master, out, storeVars>>

NoRet == [op |-> "none", ok |-> FALSE]

\* A session that is not registered (get_session_info returns None).
NoMeta == [registered |-> FALSE]
\* The content of a worker-state file that does not exist (no text holds
\* this token).
NoState == << <<"<absent>">> >>
\* A protocol or phase file that does not exist.
NoValue == "<unset>"
NoCmd == [cmd |-> "none", accepted |-> FALSE]
\* No await_trigger call, no get_worker_state call.
NoWait == [pc |-> "idle"]
NoRead == [pc |-> "idle"]

\* The session names callers pass: two names of the grammar, and one that
\* holds a character outside it.
NameA == <<"a">>
NameB == <<"b">>
BadName == <<"b", "!">>
SessionNames == {NameA, NameB, BadName}

\* The sub-directories of a session directory.
SessionDirs == {"base", "state", "state_workers", "triggers", "results", "locks"}

\* No file at locks/.master.lock; a file there is known by its inode, a number.
NoInode == -1

\* A session directory that does not exist. master is the workers holding
\* flock on the file that is at locks/.master.lock, masterFile that file.
NoSession ==
  [dirs |-> {}, metadata |-> NoState, triggers |-> {},
   workerFiles |-> [i \in Workers |-> NoState],
   lockFiles |-> [w \in Workers |-> NoFile],
   protocol |-> NoValue, phase |-> NoValue, master |-> {},
   masterFile |-> NoInode]

\* The processes that call the store: the first two workers of each session
\* of the grammar.
Procs == {NameA, NameB} \X {w \in Workers : w <= 1}
NoProc == [pc |-> "idle"]

\* The store of a session with metadata m that no command has touched yet.
InitStore(m) ==
  /\ meta = m
  /\ triggers = {}
  /\ workerFiles = [i \in Workers |-> NoState]
  /\ protocol = NoValue
  /\ phase = NoValue
  /\ resultFiles = {}
  /\ last = NoCmd
  /\ now = 0
  /\ waiter = NoWait
  /\ reader = NoRead
  /\ activeFile = NoFile
  /\ sessions = [s \in SessionNames |-> NoSession]
  /\ procs = [p \in Procs |-> NoProc]

InitLocks ==
  /\ lockFiles = [w \in Workers |-> NoFile]
  /\ ret = NoRet
  /\ pc = [w \in Workers |-> "idle"]
  /\ req = [w \in Workers |-> <<>>]
  /\ todo = [w \in Workers |-> {}]
  /\ found = [w \in Workers |-> <<>>]
  /\ master = {}
  /\ out = [w \in Workers |-> NoRet]

Init == InitLocks /\ InitStore([num_workers |-> NumWorkers])

\* ------------------------------------------------------------- lock store

\* set(lock_file.read_text().strip().split("\n")): the paths acquire reads
\* out of another worker's lock file.
LockedFiles(content) == Range(SplitLines(Strip(content)))

\* for f in files: if f in locked_files: conflicts.append((lock_file.stem, f))
RECURSIVE ConflictsWith(_, _, _)
ConflictsWith(v, content, files) ==
  IF files = <<>> THEN <<>>
  ELSE (IF Head(files) \in LockedFiles(content)
          THEN <<<<WorkerStem(v), Head(files)>>>> ELSE <<>>)
       \o ConflictsWith(v, content, Tail(files))

\* The scan loop over the globbed lock files in the order `order`, skipping
\* the caller's own file.
RECURSIVE ScanConflicts(_, _, _, _)
ScanConflicts(w, files, locks, order) ==
  IF order = <<>> THEN <<>>
  ELSE (IF Head(order) = w \/ locks[Head(order)] = NoFile THEN <<>>
          ELSE ConflictsWith(Head(order), locks[Head(order)], files))
       \o ScanConflicts(w, files, locks, Tail(order))

\* The orders in which glob may list the lock files of the workers in S.
GlobOrders(S) == {o \in [1..Cardinality(S) -> S] : Range(o) = S}

\* A merging write: the new paths appended to the record already there.
WriteLockMerged(locks, w, files) ==
  [locks EXCEPT ![w] = IF locks[w] = NoFile THEN JoinLines(files)
                       ELSE locks[w] \o <<NL>> \o JoinLines(files)]

\* my_lock.write_text("\n".join(files)): the record replaces the old one.
WriteLock(locks, w, files) == [locks EXCEPT ![w] = JoinLines(files)]

\* A write that does not look at the conflicts found.
AfterScanAlwaysWrites(locks, w, files, conflicts) == WriteLock(locks, w, files)

\* if conflicts: return False, conflicts  -- else write the caller's lock file.
AfterScan(locks, w, files, conflicts) ==
  IF conflicts # <<>> THEN locks ELSE WriteLock(locks, w, files)

\* acquire_file_locks(worker_id, files, session), start to end.
Acquire(w, files) ==
  \E order \in GlobOrders(Workers \ {w}) :
    LET conflicts == ScanConflicts(w, files, lockFiles, order) IN
    /\ lockFiles' = AfterScan(lockFiles, w, files, conflicts)
    /\ ret' = [op |-> "acquire", worker |-> w, files |-> files,
               ok |-> (conflicts = <<>>), conflicts |-> conflicts,
               before |-> lockFiles]
    /\ UNCHANGED <<storeVars, pc, req, todo, found, master, out>>

\* An unlink that takes every worker's lock file with it.
UnlinkAll(locks, w) == [v \in DOMAIN locks |-> NoFile]

\* lock_file.unlink()
Unlink(locks, w) == [locks EXCEPT ![w] = NoFile]

\* release_file_locks(worker_id, session), start to end: True when the lock
\* file existed and was unlinked, False when there was none.
Release(w) ==
  /\ lockFiles' = IF lockFiles[w] # NoFile THEN Unlink(lockFiles, w) ELSE lockFiles
  /\ ret' = [op |-> "release", worker |-> w, ok |-> (lockFiles[w] # NoFile),
             before |-> lockFiles]
  /\ UNCHANGED <<storeVars, pc, req, todo, found, master, out>>

NextLock ==
  \/ \E w \in Workers, files \in FileLists : Acquire(w, files)
  \/ \E w \in Workers : Release(w)

\* Store calls made one after another.
SpecLock == Init /\ [][NextLock]_vars

\* ------------------------------------- lock store, calls running together

\* One process per worker; a process is idle or inside one call.

\* acquire_file_locks up to open(master_lock_path, 'w'): the call is entered.
AcqCall(w, files) ==
  /\ pc[w] = "idle"
  /\ pc' = [pc EXCEPT ![w] = "flock"]
  /\ req' = [req EXCEPT ![w] = files]
  /\ found' = [found EXCEPT ![w] = <<>>]
  /\ UNCHANGED <<storeVars, lockFiles, ret, todo, master, out>>

\* fcntl.flock(master_lock, LOCK_EX) returns once no other process holds the
\* lock; locks_dir.glob("worker-*.lock") then lists the directory, the
\* caller's own file being skipped by the loop.
AcqFlock(w) ==
  /\ pc[w] = "flock"
  /\ master = {}
  /\ master' = {w}
  /\ pc' = [pc EXCEPT ![w] = "scan"]
  /\ todo' = [todo EXCEPT ![w] = {v \in Workers \ {w} : lockFiles[v] # NoFile}]
  /\ UNCHANGED <<storeVars, lockFiles, ret, req, found, out>>

\* One turn of the scan loop: read_text() of a listed lock file. A file
\* released since the glob raises OSError and is skipped.
AcqRead(w, v) ==
  /\ pc[w] = "scan"
  /\ v \in todo[w]
  /\ todo' = [todo EXCEPT ![w] = @ \ {v}]
  /\ found' = [found EXCEPT ![w] =
                 IF lockFiles[v] = NoFile THEN @
                 ELSE @ \o ConflictsWith(v, lockFiles[v], req[w])]
  /\ UNCHANGED <<storeVars, lockFiles, ret, pc, req, master, out>>

\* The scan is over: return the conflicts, or write the lock file; the
\* finally clause unlocks the master lock either way.
AcqFinish(w) ==
  /\ pc[w] = "scan"
  /\ todo[w] = {}
  /\ lockFiles' = AfterScan(lockFiles, w, req[w], found[w])
  /\ out' = [out EXCEPT ![w] = [op |-> "acquire", ok |-> (found[w] = <<>>),
                                conflicts |-> found[w]]]
  /\ master' = master \ {w}
  /\ pc' = [pc EXCEPT ![w] = "idle"]
  /\ found' = [found EXCEPT ![w] = <<>>]
  /\ req' = [req EXCEPT ![w] = <<>>]
  /\ UNCHANGED <<storeVars, ret, todo>>

\* release_file_locks up to lock_file.exists(): False when there is no file.
RelCall(w) ==
  /\ pc[w] = "idle"
  /\ pc' = [pc EXCEPT ![w] = IF lockFiles[w] # NoFile THEN "unlink" ELSE "idle"]
  /\ out' = [out EXCEPT ![w] = IF lockFiles[w] # NoFile THEN @
                               ELSE [op |-> "release", ok |-> FALSE,
                                     conflicts |-> <<>>]]
  /\ UNCHANGED <<storeVars, lockFiles, ret, req, todo, found, master>>

\* lock_file.unlink(); return True.
RelUnlink(w) ==
  /\ pc[w] = "unlink"
  /\ lockFiles' = Unlink(lockFiles, w)
  /\ out' = [out EXCEPT ![w] = [op |-> "release", ok |-> TRUE,
                                conflicts |-> <<>>]]
  /\ pc' = [pc EXCEPT ![w] = "idle"]
  /\ UNCHANGED <<storeVars, ret, req, todo, found, master>>

NextLockConc ==
  \/ \E w \in Workers, files \in FileLists : AcqCall(w, files)
  \/ \E w \in Workers : AcqFlock(w)
  \/ \E w \in Workers, v \in Workers : AcqRead(w, v)
  \/ \E w \in Workers : AcqFinish(w)
  \/ \E w \in Workers : RelCall(w)
  \/ \E w \in Workers : RelUnlink(w)

\* acquire and release calls of different workers, interleaved step by step.
SpecLockConc == Init /\ [][NextLockConc]_vars

\* ------------------------------------------- the lock and unlock commands

\* `hyperclaude lock FILES...` up to locks_dir.glob("*.lock"): the directory
\* is listed; the loop skips worker-{worker}.lock. No lock is taken.
LockCall(w, files) ==
  /\ pc[w] = "idle"
  /\ pc' = [pc EXCEPT ![w] = "cmdscan"]
  /\ req' = [req EXCEPT ![w] = files]
  /\ found' = [found EXCEPT ![w] = <<>>]
  /\ todo' = [todo EXCEPT ![w] = {v \in Workers \ {w} : lockFiles[v] # NoFile}]
  /\ UNCHANGED <<storeVars, lockFiles, ret, master, out>>

\* One turn of the command's loop: lock_file.read_text() is not guarded, so a
\* file unlocked since the glob ends the command with FileNotFoundError.
LockRead(w, v) ==
  /\ pc[w] = "cmdscan"
  /\ v \in todo[w]
  /\ IF lockFiles[v] = NoFile
       THEN /\ pc' = [pc EXCEPT ![w] = "idle"]
            /\ todo' = [todo EXCEPT ![w] = {}]
            /\ out' = [out EXCEPT ![w] = [op |-> "lock", ok |-> FALSE,
                                          conflicts |-> <<>>]]
            /\ found' = [found EXCEPT ![w] = <<>>]
       ELSE /\ todo' = [todo EXCEPT ![w] = @ \ {v}]
            /\ found' = [found EXCEPT ![w] =
                           @ \o ConflictsWith(v, lockFiles[v], req[w])]
            /\ UNCHANGED <<pc, out>>
  /\ UNCHANGED <<storeVars, lockFiles, ret, req, master>>

\* The loop is over: print CONFLICT and return, or write the lock file and
\* print "Locked n file(s)".
LockFinish(w) ==
  /\ pc[w] = "cmdscan"
  /\ todo[w] = {}
  /\ lockFiles' = AfterScan(lockFiles, w, req[w], found[w])
  /\ out' = [out EXCEPT ![w] = [op |-> "lock", ok |-> (found[w] = <<>>),
                                conflicts |-> found[w]]]
  /\ pc' = [pc EXCEPT ![w] = "idle"]
  /\ found' = [found EXCEPT ![w] = <<>>]
  /\ UNCHANGED <<storeVars, ret, req, todo, master>>

\* `hyperclaude unlock`: if lock_file.exists(): lock_file.unlink().
UnlockCmd(w) ==
  /\ pc[w] = "idle"
  /\ lockFiles' = IF lockFiles[w] # NoFile THEN Unlink(lockFiles, w) ELSE lockFiles
  /\ out' = [out EXCEPT ![w] = [op |-> "unlock", ok |-> (lockFiles[w] # NoFile),
                                conflicts |-> <<>>]]
  /\ UNCHANGED <<storeVars, ret, pc, req, todo, found, master>>

NextLockCmd ==
  \/ \E w \in Workers, files \in FileLists \ {<<>>} : LockCall(w, files)
  \/ \E w \in Workers, v \in Workers : LockRead(w, v)
  \/ \E w \in Workers : LockFinish(w)
  \/ \E w \in Workers : UnlockCmd(w)

\* lock and unlock commands of different workers, interleaved step by step.
SpecLockCmd == Init /\ [][NextLockCmd]_vars

\* ---------------------------------------------------------- trigger store

\* f"worker-{i}-done"
WorkerDone(i) == "worker-" \o ToString(i) \o "-done"
AllDone == "all-done"

\* The trigger names callers use: the workers' completion markers, the
\* barrier and a name of the caller's own.
TrigNames == {WorkerDone(i) : i \in 0 .. (DefaultWorkers - 1)} \cup {AllDone, "x"}

\* session_info.get("num_workers", 6) for a registered session,
\* config["default_workers"] otherwise.
NumWorkersOf(m) == IF m # NoMeta THEN m.num_workers ELSE DefaultWorkers

\* A barrier that is satisfied by the first marker it finds.
AnyWorkerDone(trigs, n) == \E i \in 0 .. (n - 1) : WorkerDone(i) \in trigs

\* The loop of check_all_workers_done: all_done stays True only when
\* worker-{i}-done exists for every i in range(num_workers).
AllWorkersDone(trigs, n) == \A i \in 0 .. (n - 1) : WorkerDone(i) \in trigs

\* An exclusive create that cleans up the marker it collides with.
TouchExclusive(trigs, name) ==
  IF name \in trigs THEN trigs \ {name} ELSE trigs \cup {name}

\* trigger_file.touch()
Touch(trigs, name) == trigs \cup {name}

\* trigger_file.unlink(missing_ok=True)
ClearOne(trigs, name) == trigs \ {name}

\* A barrier kept in step with the markers: withdrawn when one is missing.
AfterCheckMaintained(trigs, n) ==
  IF AllWorkersDone(trigs, n) THEN Touch(trigs, AllDone)
  ELSE ClearOne(trigs, AllDone)

\* check_all_workers_done: the triggers it leaves behind.
AfterCheck(trigs, n) ==
  IF AllWorkersDone(trigs, n) THEN Touch(trigs, AllDone) ELSE trigs

lockState == <<lockFiles, pc, req, todo, found, master, out>>

\* create_trigger(name, session)
CreateTrigger(name) ==
  /\ triggers' = Touch(triggers, name)
  /\ ret' = [op |-> "create", name |-> name, ok |-> TRUE, before |-> triggers]
  /\ UNCHANGED <<lockState, bgVars, meta, workerFiles, protocol, phase, resultFiles, last>>

\* clear_trigger(name, session)
ClearTrigger(name) ==
  /\ triggers' = ClearOne(triggers, name)
  /\ ret' = [op |-> "clear", name |-> name, ok |-> TRUE, before |-> triggers]
  /\ UNCHANGED <<lockState, bgVars, meta, workerFiles, protocol, phase, resultFiles, last>>

\* clear_all_triggers(session)
ClearAllTriggers ==
  /\ triggers' = {}
  /\ ret' = [op |-> "clear_all", name |-> "", ok |-> TRUE, before |-> triggers]
  /\ UNCHANGED <<lockState, bgVars, meta, workerFiles, protocol, phase, resultFiles, last>>

\* check_all_workers_done(session) -> bool
CheckAllWorkersDone ==
  /\ triggers' = AfterCheck(triggers, NumWorkersOf(meta))
  /\ ret' = [op |-> "check", name |-> "",
             ok |-> AllWorkersDone(triggers, NumWorkersOf(meta)),
             before |-> triggers]
  /\ UNCHANGED <<lockState, bgVars, meta, workerFiles, protocol, phase, resultFiles, last>>

NextTrig ==
  \/ \E name \in TrigNames : CreateTrigger(name)
  \/ \E name \in TrigNames : ClearTrigger(name)
  \/ ClearAllTriggers
  \/ CheckAllWorkersDone

\* The sessions the trigger store is called for: registered with 1 to
\* MaxWorkers workers, or not registered.
Metas == {NoMeta} \cup {[num_workers |-> n] : n \in 1 .. MaxWorkers}

InitTrig == InitLocks /\ \E m \in Metas : InitStore(m)

\* Trigger-store calls made one after another on one session.
SpecTrig == InitTrig /\ [][NextTrig]_vars

\* ------------------------------------------------- worker records, commands

\* The task texts a master sends: two tasks, and a text of blanks only.
Tasks == {<<"t", "1">>, <<"t", "2">>}
Blank == <<SP>>

\* An option the command line leaves out (None), falsy like the empty string.
NoOpt == ""

\* The protocols installed in protocols/.
Protocols == {"default", "git-branch"}

\* The option sets `done` is called with: none, --result, --error, and
\* --branch with --files.
DoneOpts ==
  { [branch |-> NoOpt, files |-> <<>>, error |-> NoOpt, result |-> NoOpt],
    [branch |-> NoOpt, files |-> <<>>, error |-> NoOpt, result |-> "r1"],
    [branch |-> NoOpt, files |-> <<>>, error |-> "e1", result |-> NoOpt],
    [branch |-> "br", files |-> <<"a.py">>, error |-> NoOpt, result |-> NoOpt] }

\* JSON text is a sequence of tokens: the opening brace, one <<key, value>>
\* member per field, the closing brace.
LBrace == <<"{">>
RBrace == <<"}">>

\* The order json.dumps writes the fields a record can hold.
KeyOrder == <<"status", "assignment", "branch", "files", "error", "result">>

RECURSIVE Members(_, _)
Members(rec, keys) ==
  IF keys = <<>> THEN <<>>
  ELSE (IF Head(keys) \in DOMAIN rec
          THEN << <<Head(keys), rec[Head(keys)]>> >> ELSE <<>>)
       \o Members(rec, Tail(keys))

\* json.dumps(new_state, indent=2)
Dumps(rec) == <<LBrace>> \o Members(rec, KeyOrder) \o <<RBrace>>

\* Whether json.loads accepts the text: an object that is opened, holds
\* members only, and is closed.
Parses(text) ==
  /\ Len(text) >= 2
  /\ text[1] = LBrace
  /\ text[Len(text)] = RBrace
  /\ \A j \in 2 .. (Len(text) - 1) : Len(text[j]) = 2

\* json.loads of a text it accepts: the last member of a key gives its value.
Loads(text) ==
  LET mem == 2 .. (Len(text) - 1)
      keys == {text[j][1] : j \in mem}
      at(k) == CHOOSE j \in mem :
                 text[j][1] = k /\ \A h \in mem : text[h][1] = k => h <= j
  IN [k \in keys |-> text[at(k)][2]]

\* A reader that reports a missing or unreadable record as status "unknown".
GetWorkerStateUnknown(files, i) ==
  IF files[i] # NoState /\ Parses(files[i]) THEN Loads(files[i])
  ELSE [status |-> "unknown"]

\* get_worker_state: the stored record; {"status": "ready"} when the file
\* does not exist or json.loads raises JSONDecodeError.
GetWorkerState(files, i) ==
  IF files[i] # NoState /\ Parses(files[i]) THEN Loads(files[i])
  ELSE [status |-> "ready"]

\* An update that keeps a field the record already holds.
UpdateKeepOld(old, upd) ==
  [k \in DOMAIN old \cup DOMAIN upd |-> IF k \in DOMAIN old THEN old[k] ELSE upd[k]]

\* dict.update: the fields of upd replace or extend those of old.
Update(old, upd) ==
  [k \in DOMAIN old \cup DOMAIN upd |-> IF k \in DOMAIN upd THEN upd[k] ELSE old[k]]

\* A writer that merges into the stored record even when reset is asked.
SetWorkerStateMerging(files, i, reset, fields) ==
  [files EXCEPT ![i] = Dumps(Update(GetWorkerState(files, i), fields))]

\* set_worker_state(worker_id, session, reset, **kwargs): starts from
\* {"status": "ready"} when reset, from the stored record otherwise.
SetWorkerState(files, i, reset, fields) ==
  [files EXCEPT ![i] =
     Dumps(Update(IF reset THEN [status |-> "ready"] ELSE GetWorkerState(files, i),
                  fields))]

\* The protocol file after send or broadcast: written only when no protocol
\* is active, with --protocol or "default", and only if that protocol is
\* installed (set_active_protocol).
AfterProtocol(cur, flag) ==
  LET proto == IF flag # NoOpt THEN flag ELSE "default"
  IN IF cur # NoValue THEN cur
     ELSE IF proto \in Protocols THEN proto ELSE NoValue

\* state_update of `done`: status, and the options that were given.
StateUpdate(o) ==
  LET keys == {"status"}
              \cup (IF o.branch # NoOpt THEN {"branch"} ELSE {})
              \cup (IF o.files # <<>> THEN {"files"} ELSE {})
              \cup (IF o.error # NoOpt THEN {"error"} ELSE {})
              \cup (IF o.result # NoOpt THEN {"result"} ELSE {})
  IN [k \in keys |->
        IF k = "status" THEN (IF o.error # NoOpt THEN "error" ELSE "complete")
        ELSE o[k]]

\* send: clear_trigger(f"worker-{worker_id}-done", session)
ClearForSend(trigs, i) == ClearOne(trigs, WorkerDone(i))

\* The loop of broadcast: set_worker_state(i, status="working",
\* assignment=task) for i in range(num_workers).
RECURSIVE AssignAll(_, _, _)
AssignAll(files, n, task) ==
  IF n = 0 THEN files
  ELSE SetWorkerState(AssignAll(files, n - 1, task), n - 1, FALSE,
                      [status |-> "working", assignment |-> task])

cmdFrame == <<lockState, bgVars, ret, meta>>

\* MAX_MESSAGE_LENGTH
MaxMessageLength == 100000

\* len(text): a text is a sequence of pieces, one character each in the
\* texts spelled out here and longer in a text that is long.
RECURSIVE TextLen(_)
TextLen(text) == IF text = <<>> THEN 0 ELSE Len(Head(text)) + TextLen(Tail(text))

\* proto = protocol_name or get_active_protocol(session) or "default"
ProtoFor(cur, flag) ==
  IF flag # NoOpt THEN flag ELSE IF cur # NoValue THEN cur ELSE "default"

\* current_phase = get_phase(session) or "working"
PhaseFor(ph) == IF ph # NoValue THEN ph ELSE "working"

\* _build_worker_preamble: the lines put before the task.
PreambleHead(i, proto, ph) ==
  "[Task for Worker " \o ToString(i) \o "] " \o proto \o " | " \o ph \o "\n\n"

\* send_to_worker: validate_message_length(preamble) raises ValueError.
TooLong(i, proto, ph, task) ==
  Len(PreambleHead(i, proto, ph)) + TextLen(task) > MaxMessageLength

\* The workers the loop of broadcast reaches: all n, or those up to the
\* first whose preamble send_to_worker refuses.
Reached(n, proto, ph, task) ==
  LET refused == {i \in 0 .. (n - 1) : TooLong(i, proto, ph, task)}
  IN IF refused = {} THEN n
     ELSE 1 + CHOOSE i \in refused : \A j \in refused : i <= j

\* hyperclaude send TARGET MESSAGE [--protocol P]; running is whether the
\* swarm's tmux session exists. The command is accepted when it runs to its
\* end; send_to_worker raises after the trigger and the record are written.
Send(running, target, message, flag) ==
  /\ IF /\ running
        /\ target >= 0 /\ target < NumWorkersOf(meta)
        /\ Strip(message) # <<>>
     THEN /\ protocol' = AfterProtocol(protocol, flag)
          /\ triggers' = ClearForSend(triggers, target)
          /\ workerFiles' = SetWorkerState(workerFiles, target, FALSE,
                              [status |-> "working", assignment |-> message])
          /\ last' = [cmd |-> "send", target |-> target, task |-> message,
                      accepted |-> ~TooLong(target, ProtoFor(protocol, flag),
                                            PhaseFor(phase), message)]
     ELSE /\ last' = [cmd |-> "send", target |-> target, task |-> message,
                      accepted |-> FALSE]
          /\ UNCHANGED <<protocol, triggers, workerFiles>>
  /\ UNCHANGED <<cmdFrame, phase, resultFiles>>

\* hyperclaude broadcast TASK [--protocol P]
Broadcast(running, task, flag) ==
  /\ IF running /\ Strip(task) # <<>>
     THEN LET n == NumWorkersOf(meta)
              reached == Reached(n, ProtoFor(protocol, flag), PhaseFor(phase), task)
          IN /\ protocol' = AfterProtocol(protocol, flag)
             /\ triggers' = {}
             /\ workerFiles' = AssignAll(workerFiles, reached, task)
             /\ last' = [cmd |-> "broadcast", target |-> -1, task |-> task,
                         accepted |-> \A i \in 0 .. (n - 1) :
                                        ~TooLong(i, ProtoFor(protocol, flag),
                                                 PhaseFor(phase), task)]
     ELSE /\ last' = [cmd |-> "broadcast", target |-> -1, task |-> task,
                      accepted |-> FALSE]
          /\ UNCHANGED <<protocol, triggers, workerFiles>>
  /\ UNCHANGED <<cmdFrame, phase, resultFiles>>

\* hyperclaude done --worker W [--branch B] [--files F] [--error E] [--result R]
Done(worker, o) ==
  /\ workerFiles' = SetWorkerState(workerFiles, worker, FALSE, StateUpdate(o))
  /\ resultFiles' = resultFiles \cup {worker}
  /\ triggers' = AfterCheck(Touch(triggers, WorkerDone(worker)), NumWorkersOf(meta))
  /\ last' = [cmd |-> "done", target |-> worker, task |-> <<>>, accepted |-> TRUE]
  /\ UNCHANGED <<cmdFrame, protocol, phase>>

\* hyperclaude clear: reset_swarm_state(session)
Clear ==
  /\ workerFiles' = [i \in DOMAIN workerFiles |-> NoState]
  /\ triggers' = {}
  /\ protocol' = NoValue
  /\ phase' = NoValue
  /\ last' = [cmd |-> "clear", target |-> -1, task |-> <<>>, accepted |-> TRUE]
  /\ UNCHANGED <<cmdFrame, resultFiles>>

\* hyperclaude reset: reset_swarm_state(session) and the result files, when
\* the swarm is running.
Reset(running) ==
  /\ IF running
     THEN /\ workerFiles' = [i \in DOMAIN workerFiles |-> NoState]
          /\ triggers' = {}
          /\ protocol' = NoValue
          /\ phase' = NoValue
          /\ resultFiles' = {}
          /\ last' = [cmd |-> "reset", target |-> -1, task |-> <<>>,
                      accepted |-> TRUE]
     ELSE /\ last' = [cmd |-> "reset", target |-> -1, task |-> <<>>,
                      accepted |-> FALSE]
          /\ UNCHANGED <<workerFiles, triggers, protocol, phase, resultFiles>>
  /\ UNCHANGED cmdFrame

NextCmd ==
  \/ \E running \in BOOLEAN, target \in 0 .. NumWorkers,
        message \in Tasks \cup {Blank}, flag \in {NoOpt, "git-branch"} :
       Send(running, target, message, flag)
  \/ \E running \in BOOLEAN, task \in Tasks \cup {Blank},
        flag \in {NoOpt, "git-branch"} :
       Broadcast(running, task, flag)
  \/ \E worker \in Workers, o \in DoneOpts : Done(worker, o)
  \/ Clear
  \/ \E running \in BOOLEAN : Reset(running)

\* The commands of a master and its workers, run one after another on a
\* session registered with NumWorkers workers.
SpecCmd == Init /\ [][NextCmd]_vars

\* ------------------------------------------------------ worker-state store

Statuses == {"ready", "working", "complete", "error"}

\* The keyword arguments set_worker_state is called with: a status alone, a
\* new assignment, a result.
FieldSets ==
  {[status |-> x] : x \in Statuses}
    \cup {[status |-> "working", assignment |-> <<"t", "1">>], [result |-> "r1"]}

\* set_worker_state(i, session, reset, **fields)
SetState(i, reset, fields) ==
  /\ workerFiles' = SetWorkerState(workerFiles, i, reset, fields)
  /\ ret' = [op |-> "set", ok |-> TRUE, id |-> i, reset |-> reset,
             fields |-> fields]
  /\ UNCHANGED <<lockState, bgVars, meta, triggers, protocol, phase, resultFiles, last>>

\* get_worker_state(i, session)
GetState(i) ==
  /\ ret' = [op |-> "get", ok |-> TRUE, id |-> i,
             value |-> GetWorkerState(workerFiles, i)]
  /\ UNCHANGED <<lockState, bgVars, meta, triggers, workerFiles, protocol, phase,
                 resultFiles, last>>

\* clear_worker_states(session)
ClearWorkerStates ==
  /\ workerFiles' = [i \in DOMAIN workerFiles |-> NoState]
  /\ ret' = [op |-> "clear_states", ok |-> TRUE]
  /\ UNCHANGED <<lockState, bgVars, meta, triggers, protocol, phase, resultFiles, last>>

NextState ==
  \/ \E i \in Workers, reset \in BOOLEAN, fields \in FieldSets :
       SetState(i, reset, fields)
  \/ \E i \in Workers : GetState(i)
  \/ ClearWorkerStates

\* Worker-state store calls made one after another on one session.
SpecState == Init /\ [][NextState]_vars

\* --------------------------------- worker-state store, step by step

procFrame == <<lockFiles, todo, found, master, out, ret, meta, triggers, protocol,
               phase, resultFiles, last, now, waiter, regVars>>

\* A process enters get_worker_state(i).
GetCall(i) ==
  /\ reader.pc \in {"idle", "returned"}
  /\ reader' = [pc |-> "exists", id |-> i]
  /\ UNCHANGED <<procFrame, pc, req, workerFiles>>

\* if path.exists(): ... else return {"status": "ready"}
GetExists ==
  /\ reader.pc = "exists"
  /\ reader' = IF workerFiles[reader.id] # NoState
               THEN [pc |-> "read", id |-> reader.id]
               ELSE [pc |-> "returned", id |-> reader.id, raised |-> FALSE,
                     seen |-> NoState, value |-> [status |-> "ready"]]
  /\ UNCHANGED <<procFrame, pc, req, workerFiles>>

\* json.loads(path.read_text()): read_text raises FileNotFoundError when the
\* file has been unlinked since exists(); only JSONDecodeError is caught.
GetRead ==
  /\ reader.pc = "read"
  /\ reader' = IF workerFiles[reader.id] = NoState
               THEN [pc |-> "returned", id |-> reader.id, raised |-> TRUE,
                     seen |-> NoState,
                     value |-> [exception |-> "FileNotFoundError"]]
               ELSE [pc |-> "returned", id |-> reader.id, raised |-> FALSE,
                     seen |-> workerFiles[reader.id],
                     value |-> GetWorkerState(workerFiles, reader.id)]
  /\ UNCHANGED <<procFrame, pc, req, workerFiles>>

\* Worker w enters set_worker_state(w, ...): new_state is computed and
\* serialised; the file is not touched yet.
WriteCall(w, reset, fields) ==
  /\ pc[w] = "idle"
  /\ pc' = [pc EXCEPT ![w] = "open"]
  /\ req' = [req EXCEPT ![w] =
               Dumps(Update(IF reset THEN [status |-> "ready"]
                            ELSE GetWorkerState(workerFiles, w), fields))]
  /\ UNCHANGED <<procFrame, reader, workerFiles>>

\* path.write_text: open(path, "w") creates or truncates the file.
WriteOpen(w) ==
  /\ pc[w] = "open"
  /\ pc' = [pc EXCEPT ![w] = "write"]
  /\ workerFiles' = [workerFiles EXCEPT ![w] = <<>>]
  /\ UNCHANGED <<procFrame, reader, req>>

\* path.write_text: the data reaches the file (or an inode that has been
\* unlinked meanwhile) and the file is closed.
WriteData(w) ==
  /\ pc[w] = "write"
  /\ pc' = [pc EXCEPT ![w] = "idle"]
  /\ workerFiles' = IF workerFiles[w] = NoState THEN workerFiles
                    ELSE [workerFiles EXCEPT ![w] = req[w]]
  /\ req' = [req EXCEPT ![w] = <<>>]
  /\ UNCHANGED <<procFrame, reader>>

\* The writing process is killed after part of the data reached the file.
WriteKill(w) ==
  /\ pc[w] = "write"
  /\ workerFiles[w] # NoState
  /\ \E k \in 0 .. (Len(req[w]) - 1) :
       workerFiles' = [workerFiles EXCEPT ![w] = SubSeq(req[w], 1, k)]
  /\ pc' = [pc EXCEPT ![w] = "idle"]
  /\ req' = [req EXCEPT ![w] = <<>>]
  /\ UNCHANGED <<procFrame, reader>>

\* clear_worker_states by another process: every *.json is unlinked.
ClearConc ==
  /\ \E i \in DOMAIN workerFiles : workerFiles[i] # NoState
  /\ workerFiles' = [i \in DOMAIN workerFiles |-> NoState]
  /\ UNCHANGED <<procFrame, reader, pc, req>>

\* What the workers write about themselves: a task taken up, a task done.
WriteFields ==
  { [status |-> "working", assignment |-> <<"t", "1">>],
    [status |-> "complete", result |-> "r1"] }

NextStateConc ==
  \/ \E i \in Workers : GetCall(i)
  \/ GetExists
  \/ GetRead
  \/ \E w \in Workers, reset \in BOOLEAN, fields \in WriteFields :
       WriteCall(w, reset, fields)
  \/ \E w \in Workers : WriteOpen(w)
  \/ \E w \in Workers : WriteData(w)
  \/ \E w \in Workers : WriteKill(w)
  \/ ClearConc

\* A reader, the workers writing their own records and a clear, interleaved
\* at the file operations.
SpecStateConc == Init /\ [][NextStateConc]_vars

\* ------------------------------------------------------------------ await

awaitFrame == <<lockState, ret, meta, triggers, workerFiles, protocol, phase,
                resultFiles, last, reader, regVars>>

\* The names awaited: the barrier and a name of the caller's own.
AwaitNames == {AllDone, "x"}
Timeouts == 0 .. MaxTimeout

\* await_trigger(name, timeout): start = time.time()
AwaitCall(name, timeout) ==
  /\ waiter.pc \in {"idle", "returned"}
  /\ now + timeout * TicksPerSecond <= MaxTime
  /\ waiter' = [pc |-> "test", name |-> name, start |-> now, timeout |-> timeout]
  /\ UNCHANGED <<awaitFrame, now>>

\* A loop test that compares the elapsed ticks with the timeout in seconds.
AwaitTestEarly ==
  /\ waiter.pc = "test"
  /\ waiter' = IF now - waiter.start < waiter.timeout
               THEN [waiter EXCEPT !.pc = "exists"]
               ELSE [pc |-> "returned", name |-> waiter.name,
                     start |-> waiter.start, timeout |-> waiter.timeout,
                     result |-> FALSE, at |-> now]
  /\ UNCHANGED <<awaitFrame, now>>

\* while time.time() - start < timeout: ... ; return False
AwaitTest ==
  /\ waiter.pc = "test"
  /\ waiter' = IF now - waiter.start < waiter.timeout * TicksPerSecond
               THEN [waiter EXCEPT !.pc = "exists"]
               ELSE [pc |-> "returned", name |-> waiter.name,
                     start |-> waiter.start, timeout |-> waiter.timeout,
                     result |-> FALSE, at |-> now]
  /\ UNCHANGED <<awaitFrame, now>>

\* An await that consumes the trigger it finds.
AwaitExistsConsuming ==
  /\ waiter.pc = "exists"
  /\ waiter' = IF waiter.name \in triggers
               THEN [pc |-> "returned", name |-> waiter.name,
                     start |-> waiter.start, timeout |-> waiter.timeout,
                     result |-> TRUE, at |-> now]
               ELSE [pc |-> "sleep", name |-> waiter.name,
                     start |-> waiter.start, timeout |-> waiter.timeout,
                     wake |-> now + PollTicks]
  /\ triggers' = triggers \ {waiter.name}
  /\ UNCHANGED <<lockState, ret, meta, workerFiles, protocol, phase,
                 resultFiles, last, reader, now, regVars>>

\* if trigger_file.exists(): return True; else time.sleep(0.5)
AwaitExists ==
  /\ waiter.pc = "exists"
  /\ waiter' = IF waiter.name \in triggers
               THEN [pc |-> "returned", name |-> waiter.name,
                     start |-> waiter.start, timeout |-> waiter.timeout,
                     result |-> TRUE, at |-> now]
               ELSE [pc |-> "sleep", name |-> waiter.name,
                     start |-> waiter.start, timeout |-> waiter.timeout,
                     wake |-> now + PollTicks]
  /\ UNCHANGED <<awaitFrame, now>>

\* time.sleep(0.5) returns once the interval has passed.
AwaitWake ==
  /\ waiter.pc = "sleep"
  /\ now >= waiter.wake
  /\ waiter' = [pc |-> "test", name |-> waiter.name, start |-> waiter.start,
                timeout |-> waiter.timeout]
  /\ UNCHANGED <<awaitFrame, now>>

\* Time passes: up to MaxTime, and beyond it for a sleep that is under way.
Tick ==
  /\ now < MaxTime \/ (waiter.pc = "sleep" /\ now < waiter.wake)
  /\ now' = now + 1
  /\ UNCHANGED <<awaitFrame, waiter>>

AwaitStep == AwaitTest \/ AwaitExists \/ AwaitWake

NextAwait ==
  \/ \E name \in AwaitNames, timeout \in Timeouts : AwaitCall(name, timeout)
  \/ AwaitTest
  \/ AwaitExists
  \/ AwaitWake
  \/ Tick
  \/ \E name \in AwaitNames : CreateTrigger(name)
  \/ \E name \in AwaitNames : ClearTrigger(name)

\* One process in await_trigger while others create and clear triggers; the
\* clock advances and the waiting process is scheduled.
SpecAwait ==
  Init /\ [][NextAwait]_vars /\ WF_vars(Tick) /\ WF_vars(AwaitStep)

\* ------------------------------------------------------- session registry

\* What unregister finds: the metadata and the sub-state of the session.
Namespace ==
  [meta |-> meta, triggers |-> triggers, workerFiles |-> workerFiles,
   lockFiles |-> lockFiles, protocol |-> protocol, phase |-> phase,
   resultFiles |-> resultFiles]

\* register_session(name, workspace, num_workers): the namespace is created
\* if missing, session.json is (over)written, the session becomes active.
\* Nothing in the namespace is deleted.
Register(n) ==
  /\ meta' = [num_workers |-> n]
  /\ ret' = [op |-> "register", ok |-> TRUE, n |-> n]
  /\ UNCHANGED <<lockState, bgVars, triggers, workerFiles, protocol, phase,
                 resultFiles, last>>

\* An unregister that deletes session.json and leaves the sub-directories.
UnregisterMetaOnly ==
  /\ meta' = NoMeta
  /\ ret' = [op |-> "unregister", ok |-> TRUE, before |-> Namespace]
  /\ UNCHANGED <<lockState, bgVars, triggers, workerFiles, protocol, phase,
                 resultFiles, last>>

\* unregister_session(name): shutil.rmtree(session_dir) when the directory
\* exists; nothing otherwise.
Unregister ==
  /\ meta' = NoMeta
  /\ triggers' = {}
  /\ workerFiles' = [i \in DOMAIN workerFiles |-> NoState]
  /\ lockFiles' = [w \in DOMAIN lockFiles |-> NoFile]
  /\ protocol' = NoValue
  /\ phase' = NoValue
  /\ resultFiles' = {}
  /\ ret' = [op |-> "unregister", ok |-> TRUE, before |-> Namespace]
  /\ UNCHANGED <<pc, req, todo, found, master, out, bgVars, last>>

doneFrame == <<lockFiles, todo, found, master, out, ret, meta, protocol, phase,
               bgVars>>

\* Worker w runs `hyperclaude done` with options o: set_worker_state.
DoneWrite(w, o) ==
  /\ pc[w] = "idle"
  /\ workerFiles' = SetWorkerState(workerFiles, w, FALSE, StateUpdate(o))
  /\ pc' = [pc EXCEPT ![w] = "done_result"]
  /\ UNCHANGED <<doneFrame, req, triggers, resultFiles, last>>

\* done: results_dir.mkdir(parents=True, exist_ok=True); write_text
DoneResult(w) ==
  /\ pc[w] = "done_result"
  /\ resultFiles' = resultFiles \cup {w}
  /\ pc' = [pc EXCEPT ![w] = "done_trigger"]
  /\ UNCHANGED <<doneFrame, req, triggers, workerFiles, last>>

\* done: create_trigger(f"worker-{worker}-done", session)
DoneTrigger(w) ==
  /\ pc[w] = "done_trigger"
  /\ triggers' = Touch(triggers, WorkerDone(w))
  /\ pc' = [pc EXCEPT ![w] = "done_check"]
  /\ UNCHANGED <<doneFrame, req, workerFiles, resultFiles, last>>

\* done: check_all_workers_done(session)
DoneCheck(w) ==
  /\ pc[w] = "done_check"
  /\ triggers' = AfterCheck(triggers, NumWorkersOf(meta))
  /\ pc' = [pc EXCEPT ![w] = "idle"]
  /\ last' = [cmd |-> "done", target |-> w, task |-> <<>>, accepted |-> TRUE]
  /\ UNCHANGED <<doneFrame, req, workerFiles, resultFiles>>

\* The `done` a worker of the session runs: with a result summary.
SessionDoneOpts ==
  { [branch |-> NoOpt, files |-> <<>>, error |-> NoOpt, result |-> "r1"] }

\* The workers that signal completion while the session is unregistered and
\* registered again: the first two.
Signallers == {w \in Workers : w <= 1}

NextSession ==
  \/ \E n \in 1 .. NumWorkers : Register(n)
  \/ Unregister
  \/ \E w \in Signallers, o \in SessionDoneOpts : DoneWrite(w, o)
  \/ \E w \in Signallers : DoneResult(w)
  \/ \E w \in Signallers : DoneTrigger(w)
  \/ \E w \in Signallers : DoneCheck(w)
  \/ \E w \in Signallers : Acquire(w, <<PathA>>)

\* A session that is registered, unregistered and registered again while its
\* workers run `done` (step by step) and take locks.
SpecSession == Init /\ [][NextSession]_vars

\* ------------------------------------------- the store, call after call

\* await_trigger(name, timeout) run to its return with no other process at
\* work: true when the loop is entered and finds the trigger, false when the
\* timeout is 0 or the trigger is missing throughout.
AwaitTrigger(name, timeout) ==
  /\ ret' = [op |-> "await", name |-> name,
             ok |-> (0 < timeout * TicksPerSecond /\ name \in triggers)]
  /\ UNCHANGED <<lockState, bgVars, meta, triggers, workerFiles, protocol, phase,
                 resultFiles, last>>

\* What reset_swarm_state works on: records, triggers, protocol and phase.
SwarmState ==
  [workerFiles |-> workerFiles, triggers |-> triggers, protocol |-> protocol,
   phase |-> phase]

\* A reset that forgets the phase file.
ResetKeepsPhase ==
  /\ workerFiles' = [i \in DOMAIN workerFiles |-> NoState]
  /\ triggers' = {}
  /\ protocol' = NoValue
  /\ ret' = [op |-> "reset", ok |-> TRUE, prev |-> ret.op, before |-> SwarmState]
  /\ UNCHANGED <<lockState, bgVars, meta, resultFiles, last, phase>>

\* reset_swarm_state(session), with no other process at work; prev is the
\* call made before it.
ResetSwarmState ==
  /\ workerFiles' = [i \in DOMAIN workerFiles |-> NoState]
  /\ triggers' = {}
  /\ protocol' = NoValue
  /\ phase' = NoValue
  /\ ret' = [op |-> "reset", ok |-> TRUE, prev |-> ret.op, before |-> SwarmState]
  /\ UNCHANGED <<lockState, bgVars, meta, resultFiles, last>>

\* The trigger names the store is called with here.
StoreNames == {WorkerDone(0), "x"}

NextStore ==
  \/ \E reset \in BOOLEAN :
       SetState(0, reset, [status |-> "working", assignment |-> <<"t", "1">>])
  \/ GetState(0)
  \/ \E name \in StoreNames : CreateTrigger(name)
  \/ \E name \in StoreNames : ClearTrigger(name)
  \/ ClearAllTriggers
  \/ CheckAllWorkersDone
  \/ \E name \in StoreNames, timeout \in Timeouts : AwaitTrigger(name, timeout)
  \/ Acquire(0, <<PathA>>)
  \/ Release(0)
  \/ ResetSwarmState
  \/ Register(1)
  \/ Unregister

\* Calls of all three stores and of the registry, made one after another on
\* one session.
SpecStore == Init /\ [][NextStore]_vars

\* ------------------------------------------------- the registry of sessions

\* The longest session name of VALID_SESSION_NAME.
MaxNameLen == 64

\* The characters of [a-zA-Z0-9_-] that the names here are made of.
GrammarChars == {"a", "b", "0", "-", "_"}

\* VALID_SESSION_NAME.match(name) with ^[a-zA-Z0-9_-]{1,64}$: in Python `$`
\* also matches before one newline that ends the text.
ValidSessionName(name) ==
  LET body == IF name # <<>> /\ name[Len(name)] = NL
              THEN SubSeq(name, 1, Len(name) - 1) ELSE name
  IN /\ Len(body) >= 1
     /\ Len(body) <= MaxNameLen
     /\ \A j \in 1 .. Len(body) : body[j] \in GrammarChars

\* The order json.dumps writes the fields of session.json.
MetaKeys == <<"name", "workspace", "num_workers", "tmux_session", "tmux_window">>

\* json.dumps(metadata, indent=2)
DumpsMeta(rec) == <<LBrace>> \o Members(rec, MetaKeys) \o <<RBrace>>

\* get_session_info(name): the parsed session.json, None (NoMeta) when the
\* file is missing or json.loads raises JSONDecodeError.
GetSessionInfo(ss, name) ==
  IF name \in DOMAIN ss /\ ss[name].metadata # NoState /\ Parses(ss[name].metadata)
  THEN Loads(ss[name].metadata)
  ELSE NoMeta

\* `if get_session_info(name)`: a dict is truthy when it is not empty.
Truthy(info) == info # NoMeta /\ DOMAIN info # {}

\* A reader of the pointer that does not look for the session.
GetActiveSessionUnverified(file, ss) ==
  IF file # NoFile THEN Strip(file) ELSE NoFile

\* get_active_session(): the stripped text of active_session when a session
\* with metadata is registered under it; None (NoFile) otherwise.
GetActiveSession(file, ss) ==
  IF file # NoFile /\ Truthy(GetSessionInfo(ss, Strip(file)))
  THEN Strip(file)
  ELSE NoFile

\* ensure_session_directories(name)
EnsureSessionDirectories(ns) == [ns EXCEPT !.dirs = SessionDirs]

\* A register that keeps the session.json already there.
WriteMetadataOnce(ss, name, workspace, n) ==
  [ss EXCEPT ![name] =
     [EnsureSessionDirectories(@) EXCEPT !.metadata =
        IF ss[name].metadata # NoState THEN ss[name].metadata
        ELSE DumpsMeta([name |-> name, workspace |-> workspace, num_workers |-> n,
                        tmux_session |-> name, tmux_window |-> "main"])]]

\* register_session up to write_text: the directories are created, session.json
\* is written over whatever was there.
WriteMetadata(ss, name, workspace, n) ==
  [ss EXCEPT ![name] =
     [EnsureSessionDirectories(@) EXCEPT !.metadata =
        DumpsMeta([name |-> name, workspace |-> workspace, num_workers |-> n,
                   tmux_session |-> name, tmux_window |-> "main"])]]

\* if session_dir.exists(): shutil.rmtree(session_dir)
RemoveTree(ss, name) == [ss EXCEPT ![name] = NoSession]

\* The end of unregister_session: get_active_session() is asked after the
\* directory is gone, and active_session is unlinked when it answers `name`.
ClearIfActive(file, ss, name) ==
  IF GetActiveSession(file, ss) = name THEN NoFile ELSE file

\* What calls on sessions/ and active_session leave alone.
sessFrame == <<lockState, meta, triggers, workerFiles, protocol, phase, resultFiles,
               last, now, waiter, reader>>

regFrame == <<sessFrame, procs>>

\* What a registry call finds: the sessions and the pointer.
Registry == [sessions |-> sessions, activeFile |-> activeFile]

\* register_session(name, workspace, num_workers)
RegisterSession(name, workspace, n) ==
  /\ sessions' = WriteMetadata(sessions, name, workspace, n)
  /\ activeFile' = name
  /\ ret' = [op |-> "register", ok |-> TRUE, name |-> name,
             workspace |-> workspace, n |-> n, before |-> Registry]
  /\ UNCHANGED regFrame

\* unregister_session(name)
UnregisterSession(name) ==
  /\ sessions' = RemoveTree(sessions, name)
  /\ activeFile' = ClearIfActive(activeFile, RemoveTree(sessions, name), name)
  /\ ret' = [op |-> "unregister", ok |-> TRUE, name |-> name, before |-> Registry]
  /\ UNCHANGED regFrame

\* set_active_session(name)
SetActiveSession(name) ==
  /\ activeFile' = name
  /\ ret' = [op |-> "set_active", ok |-> TRUE, name |-> name, before |-> Registry]
  /\ UNCHANGED <<regFrame, sessions>>

\* get_active_session() and get_session_info(name), called by a client.
AskRegistry(name) ==
  /\ ret' = [op |-> "ask", ok |-> TRUE, name |-> name,
             active |-> GetActiveSession(activeFile, sessions),
             info |-> GetSessionInfo(sessions, name), before |-> Registry]
  /\ UNCHANGED <<regFrame, sessions, activeFile>>

\* create_trigger(name, session) with the session given: the namespace is
\* created on demand, without session.json.
CreateTriggerIn(s, name) ==
  /\ sessions' = [sessions EXCEPT ![s] =
                    [EnsureSessionDirectories(@) EXCEPT !.triggers = Touch(@, name)]]
  /\ ret' = [op |-> "create", ok |-> TRUE, session |-> s, name |-> name]
  /\ UNCHANGED <<regFrame, activeFile>>

\* The workspaces sessions are started in.
Workspaces == {"/w1", "/w2"}

\* The names set_active_session is called with: the session names, and one
\* that ends in a blank.
PointerNames == SessionNames \cup {<<"a", SP>>}

NextRegistry ==
  \/ \E name \in SessionNames, workspace \in Workspaces, n \in 1 .. NumWorkers :
       RegisterSession(name, workspace, n)
  \/ \E name \in SessionNames : UnregisterSession(name)
  \/ \E name \in PointerNames : SetActiveSession(name)
  \/ \E name \in SessionNames : AskRegistry(name)
  \/ \E s \in {NameA, NameB} : CreateTriggerIn(s, "x")

\* Sessions registered, unregistered and made active one call after another.
SpecRegistry == Init /\ [][NextRegistry]_vars

\* ------------------------------------------- store calls, session given

\* A store with one namespace, whatever session is given.
PutNamespaceShared(ss, s, after) == [t \in DOMAIN ss |-> after]

\* get_session_dir(session) / ...: a call with session s works on sessions/s/.
PutNamespace(ss, s, after) == [ss EXCEPT ![s] = after]

\* A store call with session s that leaves the namespace `after`.
StoreCall(s, op, ok, after) ==
  /\ sessions' = PutNamespace(sessions, s, after)
  /\ ret' = [op |-> op, ok |-> ok, session |-> s]
  /\ UNCHANGED <<regFrame, activeFile>>

\* locks_dir.mkdir(parents=True, exist_ok=True): the session directory and
\* its locks directory.
MakeLocksDir(ns) == [ns EXCEPT !.dirs = @ \cup {"base", "locks"}]

\* set_worker_state(worker_id, session, reset, **kwargs)
SetWorkerStateIn(s, i, reset, fields) ==
  StoreCall(s, "set", TRUE,
            [EnsureSessionDirectories(sessions[s]) EXCEPT
               !.workerFiles = SetWorkerState(@, i, reset, fields)])

\* clear_worker_states(session)
ClearWorkerStatesIn(s) ==
  StoreCall(s, "clear_states", TRUE,
            [sessions[s] EXCEPT !.workerFiles = [i \in DOMAIN @ |-> NoState]])

\* clear_trigger(name, session)
ClearTriggerIn(s, name) ==
  StoreCall(s, "clear", TRUE,
            [sessions[s] EXCEPT !.triggers = ClearOne(@, name)])

\* clear_all_triggers(session)
ClearAllTriggersIn(s) ==
  StoreCall(s, "clear_all", TRUE, [sessions[s] EXCEPT !.triggers = {}])

\* check_all_workers_done(session): create_trigger("all-done", session) when
\* every worker of the session is done.
CheckAllWorkersDoneIn(s) ==
  LET n == NumWorkersOf(GetSessionInfo(sessions, s))
      all_done == AllWorkersDone(sessions[s].triggers, n)
  IN StoreCall(s, "check", all_done,
               IF all_done
               THEN [EnsureSessionDirectories(sessions[s]) EXCEPT
                       !.triggers = Touch(@, AllDone)]
               ELSE sessions[s])

\* acquire_file_locks(worker_id, files, session), start to end.
AcquireIn(s, w, files) ==
  \E order \in GlobOrders(Workers \ {w}) :
    LET conflicts == ScanConflicts(w, files, sessions[s].lockFiles, order)
    IN StoreCall(s, "acquire", conflicts = <<>>,
                 [MakeLocksDir(sessions[s]) EXCEPT
                    !.lockFiles = AfterScan(@, w, files, conflicts)])

\* release_file_locks(worker_id, session), start to end.
ReleaseIn(s, w) ==
  StoreCall(s, "release", sessions[s].lockFiles[w] # NoFile,
            [sessions[s] EXCEPT
               !.lockFiles = IF @[w] # NoFile THEN Unlink(@, w) ELSE @])

\* reset_swarm_state(session)
ResetSwarmStateIn(s) ==
  StoreCall(s, "reset", TRUE,
            [sessions[s] EXCEPT !.workerFiles = [i \in DOMAIN @ |-> NoState],
                                !.triggers = {},
                                !.protocol = NoValue,
                                !.phase = NoValue])

\* set_phase(phase, session)
SetPhaseIn(s, ph) ==
  StoreCall(s, "set_phase", TRUE,
            [EnsureSessionDirectories(sessions[s]) EXCEPT !.phase = ph])

\* set_active_protocol(name, session): False, and nothing written, when the
\* protocol is not installed.
SetActiveProtocolIn(s, name) ==
  StoreCall(s, "set_protocol", name \in Protocols,
            IF name \in Protocols
            THEN [EnsureSessionDirectories(sessions[s]) EXCEPT !.protocol = name]
            ELSE sessions[s])

\* The sessions the store is called for.
StoreSessions == {NameA, NameB}

NextSessions ==
  \/ \E s \in StoreSessions : RegisterSession(s, "/w1", 1)
  \/ \E s \in StoreSessions :
       SetWorkerStateIn(s, 0, FALSE, [status |-> "working"])
  \/ \E s \in StoreSessions : ClearWorkerStatesIn(s)
  \/ \E s \in StoreSessions : CreateTriggerIn(s, WorkerDone(0))
  \/ \E s \in StoreSessions : ClearTriggerIn(s, WorkerDone(0))
  \/ \E s \in StoreSessions : ClearAllTriggersIn(s)
  \/ \E s \in StoreSessions : CheckAllWorkersDoneIn(s)
  \/ \E s \in StoreSessions : AcquireIn(s, 0, <<PathA>>)
  \/ \E s \in StoreSessions : ReleaseIn(s, 0)
  \/ \E s \in StoreSessions : ResetSwarmStateIn(s)
  \/ \E s \in StoreSessions : SetPhaseIn(s, "p1")
  \/ \E s \in StoreSessions, name \in {"default", "nope"} :
       SetActiveProtocolIn(s, name)

\* Store calls made one after another, each for one of two sessions.
SpecSessions == Init /\ [][NextSessions]_vars

\* --------------------------------- acquire running in several sessions

\* A process is <<session, worker>>; it is idle or inside one acquire.

\* A master lock that is one file for all sessions.
FlockFreeAnywhere(ss, s) == \A t \in DOMAIN ss : ss[t].master = {}

\* fcntl.flock(master_lock, LOCK_EX) on locks_dir / ".master.lock" of the
\* session returns when no process holds the lock on that file.
FlockFree(ss, s) == ss[s].master = {}

\* acquire_file_locks up to open(master_lock_path, 'w').
AcqCallIn(p, files) ==
  /\ procs[p].pc = "idle"
  /\ procs' = [procs EXCEPT ![p] = [pc |-> "flock", files |-> files]]
  /\ sessions' = PutNamespace(sessions, p[1], MakeLocksDir(sessions[p[1]]))
  /\ UNCHANGED <<sessFrame, activeFile, ret>>

\* flock returns; locks_dir.glob("worker-*.lock") lists the lock files.
AcqFlockIn(p) ==
  /\ procs[p].pc = "flock"
  /\ FlockFree(sessions, p[1])
  /\ sessions' = PutNamespace(sessions, p[1],
                              [sessions[p[1]] EXCEPT !.master = {p[2]}])
  /\ procs' = [procs EXCEPT ![p] =
                 [pc |-> "scan", files |-> procs[p].files, found |-> <<>>,
                  todo |-> {v \in Workers \ {p[2]} :
                              sessions[p[1]].lockFiles[v] # NoFile}]]
  /\ UNCHANGED <<sessFrame, activeFile, ret>>

\* One turn of the scan loop.
AcqReadIn(p, v) ==
  /\ procs[p].pc = "scan"
  /\ v \in procs[p].todo
  /\ procs' = [procs EXCEPT ![p] =
                 [@ EXCEPT !.todo = @ \ {v},
                           !.found =
                             IF sessions[p[1]].lockFiles[v] = NoFile THEN @
                             ELSE @ \o ConflictsWith(v, sessions[p[1]].lockFiles[v],
                                                    procs[p].files)]]
  /\ UNCHANGED <<sessFrame, activeFile, ret, sessions>>

\* The scan is over: the conflicts are returned or the lock file is written,
\* and the master lock is unlocked.
AcqFinishIn(p) ==
  /\ procs[p].pc = "scan"
  /\ procs[p].todo = {}
  /\ sessions' = PutNamespace(sessions, p[1],
                   [sessions[p[1]] EXCEPT
                      !.lockFiles = AfterScan(@, p[2], procs[p].files, procs[p].found),
                      !.master = @ \ {p[2]}])
  /\ procs' = [procs EXCEPT ![p] = NoProc]
  /\ ret' = [op |-> "acquire", ok |-> (procs[p].found = <<>>), session |-> p[1]]
  /\ UNCHANGED <<sessFrame, activeFile>>

NextLockSessions ==
  \/ \E p \in Procs, files \in {<<PathA>>, <<PathB>>} : AcqCallIn(p, files)
  \/ \E p \in Procs : AcqFlockIn(p)
  \/ \E p \in Procs, v \in Workers : AcqReadIn(p, v)
  \/ \E p \in Procs : AcqFinishIn(p)
  \/ \E p \in Procs : ReleaseIn(p[1], p[2])

\* The workers of two sessions taking and releasing locks, step by step.
SpecLockSessions == Init /\ [][NextLockSessions]_vars

\* ------------------------------------------- messages of every length

\* "x" * n
RECURSIVE Filler(_)
Filler(n) ==
  IF n = 0 THEN ""
  ELSE IF n % 2 = 0 THEN LET half == Filler(n \div 2) IN half \o half
  ELSE "x" \o Filler(n - 1)

\* A message one character longer than MAX_MESSAGE_LENGTH.
LongTask == <<Filler(MaxMessageLength), "x">>

\* The messages send and broadcast are called with: a task, the empty
\* message and the long one.
Messages == {<<"t", "1">>, <<>>, LongTask}

NextSendLen ==
  \/ \E running \in BOOLEAN, target \in 0 .. NumWorkers, message \in Messages :
       Send(running, target, message, NoOpt)
  \/ \E running \in BOOLEAN, task \in Messages : Broadcast(running, task, NoOpt)
  \/ \E worker \in Workers, o \in SessionDoneOpts : Done(worker, o)

\* A master sending messages of any length while the workers signal
\* completion.
SpecSendLen == Init /\ [][NextSendLen]_vars

\* --------------------------------------- commands with any worker id

\* A session registered with fewer workers than the ids commands are given.
InitRange == InitLocks /\ \E n \in 1 .. (NumWorkers - 1) : InitStore([num_workers |-> n])

NextRange ==
  \/ \E target \in 0 .. NumWorkers : Send(TRUE, target, <<"t", "1">>, NoOpt)
  \/ \E worker \in Workers, o \in SessionDoneOpts : Done(worker, o)
  \/ \E w \in Workers, files \in {<<PathA>>, <<PathB>>} : LockCall(w, files)
  \/ \E w \in Workers, v \in Workers : LockRead(w, v)
  \/ \E w \in Workers : LockFinish(w)
  \/ \E w \in Workers : UnlockCmd(w)

\* send, done, lock and unlock run with the worker ids 0 .. NumWorkers - 1 on
\* a session of fewer workers.
SpecRange == InitRange /\ [][NextRange]_vars

\* ------------------------------------------ deletes running together

\* A process is idle or inside one deleting call; todo holds the worker whose
\* lock file the call is about.

delFrame == <<ret, req, found, master, meta, resultFiles, last, bgVars>>

\* set_phase(phase, session)
SetPhase(ph) ==
  /\ phase' = ph
  /\ ret' = [op |-> "set_phase", ok |-> TRUE]
  /\ UNCHANGED <<lockState, bgVars, meta, triggers, workerFiles, protocol,
                 resultFiles, last>>

\* set_active_protocol(name, session)
SetActiveProtocol(name) ==
  /\ protocol' = IF name \in Protocols THEN name ELSE protocol
  /\ ret' = [op |-> "set_protocol", ok |-> (name \in Protocols)]
  /\ UNCHANGED <<lockState, bgVars, meta, triggers, workerFiles, phase,
                 resultFiles, last>>

\* reset_swarm_state: clear_worker_states(session); clear_all_triggers(session)
ResetCall(p) ==
  /\ pc[p] = "idle"
  /\ workerFiles' = [i \in DOMAIN workerFiles |-> NoState]
  /\ triggers' = {}
  /\ pc' = [pc EXCEPT ![p] = "reset_protocol"]
  /\ UNCHANGED <<delFrame, lockFiles, todo, out, protocol, phase>>

\* reset_swarm_state, name = "protocol": if path.exists()
ResetProtocolExists(p) ==
  /\ pc[p] = "reset_protocol"
  /\ pc' = [pc EXCEPT ![p] = IF protocol # NoValue THEN "reset_protocol_unlink"
                             ELSE "reset_phase"]
  /\ UNCHANGED <<delFrame, lockFiles, todo, out, protocol, phase, workerFiles,
                 triggers>>

\* path.unlink(): FileNotFoundError, which nothing catches, when the file is
\* gone since exists().
ResetProtocolUnlink(p) ==
  /\ pc[p] = "reset_protocol_unlink"
  /\ protocol' = NoValue
  /\ pc' = [pc EXCEPT ![p] = IF protocol # NoValue THEN "reset_phase" ELSE "idle"]
  /\ out' = [out EXCEPT ![p] = IF protocol # NoValue THEN @
                               ELSE [op |-> "reset", ok |-> FALSE, raised |-> TRUE]]
  /\ UNCHANGED <<delFrame, lockFiles, todo, phase, workerFiles, triggers>>

\* reset_swarm_state, name = "phase": if path.exists()
ResetPhaseExists(p) ==
  /\ pc[p] = "reset_phase"
  /\ pc' = [pc EXCEPT ![p] = IF phase # NoValue THEN "reset_phase_unlink"
                             ELSE "idle"]
  /\ out' = [out EXCEPT ![p] = IF phase # NoValue THEN @
                               ELSE [op |-> "reset", ok |-> TRUE, raised |-> FALSE]]
  /\ UNCHANGED <<delFrame, lockFiles, todo, protocol, phase, workerFiles, triggers>>

\* path.unlink() of the phase file, and the return.
ResetPhaseUnlink(p) ==
  /\ pc[p] = "reset_phase_unlink"
  /\ phase' = NoValue
  /\ pc' = [pc EXCEPT ![p] = "idle"]
  /\ out' = [out EXCEPT ![p] = [op |-> "reset", ok |-> (phase # NoValue),
                                raised |-> (phase = NoValue)]]
  /\ UNCHANGED <<delFrame, lockFiles, todo, protocol, workerFiles, triggers>>

\* `hyperclaude unlock --worker w` and release_file_locks(w, session) up to
\* lock_file.exists(): "No locks held" or False when there is no file.
DeleteLockCall(p, w, op) ==
  /\ pc[p] = "idle"
  /\ pc' = [pc EXCEPT ![p] = IF lockFiles[w] # NoFile THEN op ELSE "idle"]
  /\ todo' = [todo EXCEPT ![p] = IF lockFiles[w] # NoFile THEN {w} ELSE {}]
  /\ out' = [out EXCEPT ![p] = IF lockFiles[w] # NoFile THEN @
                               ELSE [op |-> op, ok |-> FALSE, raised |-> FALSE]]
  /\ UNCHANGED <<delFrame, lockFiles, protocol, phase, workerFiles, triggers>>

\* unlock: lock_file.unlink(), outside any try: FileNotFoundError when the
\* file is gone since exists().
UnlockUnlink(p) ==
  /\ pc[p] = "unlock"
  /\ \E w \in todo[p] :
       /\ lockFiles' = Unlink(lockFiles, w)
       /\ out' = [out EXCEPT ![p] = [op |-> "unlock", ok |-> (lockFiles[w] # NoFile),
                                     raised |-> (lockFiles[w] = NoFile)]]
  /\ pc' = [pc EXCEPT ![p] = "idle"]
  /\ todo' = [todo EXCEPT ![p] = {}]
  /\ UNCHANGED <<delFrame, protocol, phase, workerFiles, triggers>>

\* release_file_locks: try: lock_file.unlink(); return True -- except
\* (IOError, OSError): return False.
ReleaseUnlink(p) ==
  /\ pc[p] = "release"
  /\ \E w \in todo[p] :
       /\ lockFiles' = Unlink(lockFiles, w)
       /\ out' = [out EXCEPT ![p] = [op |-> "release", ok |-> (lockFiles[w] # NoFile),
                                     raised |-> FALSE]]
  /\ pc' = [pc EXCEPT ![p] = "idle"]
  /\ todo' = [todo EXCEPT ![p] = {}]
  /\ UNCHANGED <<delFrame, protocol, phase, workerFiles, triggers>>

NextDelete ==
  \/ SetPhase("p1")
  \/ SetActiveProtocol("default")
  \/ Acquire(0, <<PathA>>)
  \/ CreateTrigger(WorkerDone(0))
  \/ ClearTrigger(WorkerDone(0))
  \/ ClearAllTriggers
  \/ ClearWorkerStates
  \/ \E p \in Workers : ResetCall(p)
  \/ \E p \in Workers : ResetProtocolExists(p)
  \/ \E p \in Workers : ResetProtocolUnlink(p)
  \/ \E p \in Workers : ResetPhaseExists(p)
  \/ \E p \in Workers : ResetPhaseUnlink(p)
  \/ \E p \in Workers, op \in {"unlock", "release"} : DeleteLockCall(p, 0, op)
  \/ \E p \in Workers : UnlockUnlink(p)
  \/ \E p \in Workers : ReleaseUnlink(p)

\* Processes that delete the same records at the same time.
SpecDelete == Init /\ [][NextDelete]_vars

\* ------------------------------------------------------ resets in a row

NextReset ==
  \/ \E reset \in BOOLEAN :
       SetState(0, reset, [status |-> "working", assignment |-> <<"t", "1">>])
  \/ CreateTrigger(WorkerDone(0))
  \/ CheckAllWorkersDone
  \/ SetPhase("p1")
  \/ SetActiveProtocol("default")
  \/ ResetSwarmState

\* A session that is written to and reset, one call after another.
SpecReset == InitTrig /\ [][NextReset]_vars

\* ------------------------------------------------------ the lock table

\* get_all_locks(session): lock_file.stem -> read_text().strip().split("\n")
\* for every worker-*.lock of the locks directory.
GetAllLocks(locks) ==
  LET holders == {w \in DOMAIN locks : locks[w] # NoFile}
      owner(stem) == CHOOSE w \in holders : WorkerStem(w) = stem
  IN [stem \in {WorkerStem(w) : w \in holders} |->
        SplitLines(Strip(locks[owner(stem)]))]

\* ------------------------------------------ acquire, every way out

\* A master lock that stays locked when the critical section raises.
AfterRaiseHeld(m, w) == m

\* finally: fcntl.flock(master_lock, fcntl.LOCK_UN), reached when the scan or
\* the write raises.
AfterRaise(m, w) == m \ {w}

\* The critical section raises: read_text a decoding error, write_text an
\* OSError. Nothing is written and the exception leaves acquire_file_locks.
AcqRaise(w) ==
  /\ pc[w] = "scan"
  /\ master' = AfterRaise(master, w)
  /\ out' = [out EXCEPT ![w] = [op |-> "acquire", ok |-> FALSE,
                                conflicts |-> <<>>, raised |-> TRUE]]
  /\ pc' = [pc EXCEPT ![w] = "idle"]
  /\ todo' = [todo EXCEPT ![w] = {}]
  /\ found' = [found EXCEPT ![w] = <<>>]
  /\ req' = [req EXCEPT ![w] = <<>>]
  /\ UNCHANGED <<storeVars, lockFiles, ret>>

\* The steps of an acquire that holds the master lock.
AcqStep(w) ==
  \/ \E v \in Workers : AcqRead(w, v)
  \/ AcqFinish(w)
  \/ AcqRaise(w)

\* The workers that acquire here: the first two.
Acquirers == {w \in Workers : w <= 1}

NextLockLive ==
  \/ \E w \in Acquirers, files \in {<<PathA>>, <<PathB>>} : AcqCall(w, files)
  \/ \E w \in Acquirers : AcqFlock(w)
  \/ \E w \in Acquirers : AcqStep(w)
  \/ \E w \in Acquirers : Release(w)

\* Acquire calls of the workers of one session, step by step: a process
\* inside the critical section keeps running, and a process waiting in flock
\* gets the lock if it is free again and again.
SpecLockLive ==
  /\ Init
  /\ [][NextLockLive]_vars
  /\ \A w \in Acquirers : WF_vars(AcqStep(w))
  /\ \A w \in Acquirers : SF_vars(AcqFlock(w))

\* --------------------------------- two writers of one worker record

\* A process is idle, or inside set_worker_state(i, reset=False, **fields)
\* between its read and its write; todo holds i, req the text to write.

\* A write that merges into the record it finds, as under a lock.
WrittenMerging(cur, text, fields) ==
  IF cur # NoState /\ Parses(cur) THEN Dumps(Update(Loads(cur), fields)) ELSE text

\* path.write_text(json.dumps(new_state, indent=2)): the text computed from
\* the earlier read replaces whatever the file holds now.
Written(cur, text, fields) == text

\* set_worker_state: new_state = get_worker_state(...); new_state.update(kwargs)
MergeRead(p, i, fields) ==
  /\ pc[p] = "idle"
  /\ pc' = [pc EXCEPT ![p] = "merge_write"]
  /\ todo' = [todo EXCEPT ![p] = {i}]
  /\ req' = [req EXCEPT ![p] = Dumps(Update(GetWorkerState(workerFiles, i), fields))]
  /\ out' = [out EXCEPT ![p] = [op |-> "merging", ok |-> FALSE, fields |-> fields,
                                seen |-> GetWorkerState(workerFiles, i)]]
  /\ UNCHANGED <<storeVars, lockFiles, ret, found, master>>

\* set_worker_state: path.write_text(...)
MergeWrite(p) ==
  /\ pc[p] = "merge_write"
  /\ \E i \in todo[p] :
       workerFiles' = [workerFiles EXCEPT ![i] = Written(@, req[p], out[p].fields)]
  /\ pc' = [pc EXCEPT ![p] = "idle"]
  /\ todo' = [todo EXCEPT ![p] = {}]
  /\ req' = [req EXCEPT ![p] = <<>>]
  /\ out' = [out EXCEPT ![p] = [@ EXCEPT !.op = "merged", !.ok = TRUE]]
  /\ UNCHANGED <<lockFiles, ret, found, master, meta, triggers, protocol, phase,
                 resultFiles, last, bgVars>>

\* What the writers of a record set: the manager an assignment, the worker a
\* result, a branch or a status.
MergeFields ==
  { [assignment |-> <<"t", "1">>], [result |-> "r1"], [branch |-> "br"],
    [status |-> "complete"] }

\* The processes that write: the first two.
Writers == {p \in Workers : p <= 1}

NextMerge ==
  \/ \E p \in Writers, fields \in MergeFields : MergeRead(p, 0, fields)
  \/ \E p \in Writers : MergeWrite(p)

\* Two processes that update the record of worker 0, interleaved at the read
\* and the write.
SpecMerge == Init /\ [][NextMerge]_vars

\* ------------------------------------------- the barrier, step by step

\* A loop over range(num_workers + 1).
ScanRangeOneMore(n) == 0 .. n

\* check_all_workers_done: for i in range(num_workers)
ScanRange(n) == 0 .. (n - 1)

\* `done` has returned: all_done is what check_all_workers_done returned.
DoneReturn(w, all_done) ==
  /\ pc' = [pc EXCEPT ![w] = "idle"]
  /\ todo' = [todo EXCEPT ![w] = {}]
  /\ out' = [out EXCEPT ![w] = [op |-> "done", ok |-> all_done]]
  /\ last' = [cmd |-> "done", target |-> w, task |-> <<>>, accepted |-> TRUE]

\* check_all_workers_done: session_info is read, the loop begins.
DoneScanStart(w) ==
  /\ pc[w] = "done_check"
  /\ pc' = [pc EXCEPT ![w] = "check_scan"]
  /\ todo' = [todo EXCEPT ![w] = ScanRange(NumWorkersOf(meta))]
  /\ UNCHANGED <<lockFiles, found, master, out, ret, req, storeVars>>

\* check_all_workers_done: trigger_exists(f"worker-{i}-done") for the next
\* i; the loop breaks at the first marker that is missing.
DoneScanTest(w) ==
  /\ pc[w] = "check_scan"
  /\ todo[w] # {}
  /\ LET i == CHOOSE j \in todo[w] : \A k \in todo[w] : j <= k
     IN IF WorkerDone(i) \in triggers
        THEN /\ todo' = [todo EXCEPT ![w] = @ \ {i}]
             /\ UNCHANGED <<pc, out, last>>
        ELSE DoneReturn(w, FALSE)
  /\ UNCHANGED <<lockFiles, found, master, ret, req, meta, triggers, workerFiles,
                 protocol, phase, resultFiles, bgVars>>

\* check_all_workers_done: if all_done: create_trigger("all-done", session)
DoneCreate(w) ==
  /\ pc[w] = "check_scan"
  /\ todo[w] = {}
  /\ triggers' = Touch(triggers, AllDone)
  /\ DoneReturn(w, TRUE)
  /\ UNCHANGED <<lockFiles, found, master, ret, req, meta, workerFiles,
                 protocol, phase, resultFiles, bgVars>>

\* The steps of `hyperclaude done --worker w`.
DoneStep(w) ==
  \/ \E o \in SessionDoneOpts : DoneWrite(w, o)
  \/ DoneResult(w)
  \/ DoneTrigger(w)
  \/ DoneScanStart(w)
  \/ DoneScanTest(w)
  \/ DoneCreate(w)

NextBarrier == \E w \in Workers : DoneStep(w)

\* Every worker of a session registered with NumWorkers workers runs `done`,
\* interleaved step by step; nothing clears a trigger.
SpecBarrier == Init /\ [][NextBarrier]_vars

NextRounds ==
  \/ \E w \in Workers : DoneStep(w)
  \/ \E task \in Tasks : Broadcast(TRUE, task, NoOpt)
  \/ Clear

\* Rounds of work: the manager broadcasts and clears while the workers' `done`
\* commands run step by step.
SpecRounds == Init /\ [][NextRounds]_vars

\* ----------------------------- acquire while the session is taken down

\* The processes of session s that have locks/.master.lock open.
Openers(s) == {q \in Procs : q[1] = s /\ procs[q].pc \in {"flock", "scan"}}

\* The processes of session s inside the critical section of acquire.
InCritical(s) == {q \in Procs : q[1] = s /\ procs[q].pc = "scan"}

\* The inode of a file that open(..., 'w') creates: one no process has open.
FreshInode(s) ==
  LET used == {procs[q].inode : q \in Openers(s)}
  IN CHOOSE n \in 0 .. Cardinality(Procs) :
       n \notin used /\ \A m \in 0 .. (n - 1) : m \in used

\* fcntl.flock(master_lock, LOCK_EX): granted when no other process holds a
\* lock on the file the descriptor was opened on.
FlockGranted(p) ==
  \A q \in InCritical(p[1]) : q = p \/ procs[q].inode # procs[p].inode

\* acquire_file_locks: locks_dir.mkdir(parents=True, exist_ok=True);
\* open(master_lock_path, 'w') opens the file at the path or creates one.
AcqOpen(p, files) ==
  /\ procs[p].pc = "idle"
  /\ LET ns == MakeLocksDir(sessions[p[1]])
         inode == IF ns.masterFile # NoInode THEN ns.masterFile
                  ELSE FreshInode(p[1])
     IN /\ sessions' = PutNamespace(sessions, p[1],
                                    [ns EXCEPT !.masterFile = inode])
        /\ procs' = [procs EXCEPT ![p] =
                       [pc |-> "flock", files |-> files, inode |-> inode]]
  /\ UNCHANGED <<sessFrame, activeFile, ret>>

\* flock returns on the opened file; locks_dir.glob("worker-*.lock") lists
\* the lock files.
AcqFlockOpened(p) ==
  /\ procs[p].pc = "flock"
  /\ FlockGranted(p)
  /\ sessions' = PutNamespace(sessions, p[1],
                   [sessions[p[1]] EXCEPT
                      !.master = IF sessions[p[1]].masterFile = procs[p].inode
                                 THEN @ \cup {p[2]} ELSE @])
  /\ procs' = [procs EXCEPT ![p] =
                 [pc |-> "scan", files |-> procs[p].files, inode |-> procs[p].inode,
                  found |-> <<>>,
                  todo |-> {v \in Workers \ {p[2]} :
                              sessions[p[1]].lockFiles[v] # NoFile}]]
  /\ UNCHANGED <<sessFrame, activeFile, ret>>

\* The scan is over: the conflicts are returned, or my_lock.write_text(...)
\* writes the lock file, raising when the locks directory is gone; the master
\* lock is unlocked on every way out.
AcqFinishOpened(p) ==
  /\ procs[p].pc = "scan"
  /\ procs[p].todo = {}
  /\ LET ns == sessions[p[1]]
         raised == procs[p].found = <<>> /\ "locks" \notin ns.dirs
     IN /\ sessions' = PutNamespace(sessions, p[1],
                         [ns EXCEPT
                            !.lockFiles = IF raised THEN @
                                          ELSE AfterScan(@, p[2], procs[p].files,
                                                         procs[p].found),
                            !.master = IF ns.masterFile = procs[p].inode
                                       THEN @ \ {p[2]} ELSE @])
        /\ ret' = [op |-> "acquire", ok |-> (procs[p].found = <<>> /\ ~raised),
                   session |-> p[1], raised |-> raised]
  /\ procs' = [procs EXCEPT ![p] = NoProc]
  /\ UNCHANGED <<sessFrame, activeFile>>

\* stop_swarm(session): every *.lock file of the locks directory is unlinked,
\* .master.lock among them, and the session is unregistered.
StopSwarm(name) ==
  /\ sessions' = RemoveTree(sessions, name)
  /\ activeFile' = ClearIfActive(activeFile, RemoveTree(sessions, name), name)
  /\ ret' = [op |-> "stop", ok |-> TRUE, name |-> name, before |-> Registry]
  /\ UNCHANGED regFrame

\* The acquiring processes: those of one session.
StopProcs == {p \in Procs : p[1] = NameA}

NextLockStop ==
  \/ \E p \in StopProcs, files \in {<<PathA>>, <<PathB>>} : AcqOpen(p, files)
  \/ \E p \in StopProcs : AcqFlockOpened(p)
  \/ \E p \in StopProcs, v \in Workers : AcqReadIn(p, v)
  \/ \E p \in StopProcs : AcqFinishOpened(p)
  \/ StopSwarm(NameA)
  \/ UnregisterSession(NameA)
  \/ \E n \in 1 .. NumWorkers : RegisterSession(NameA, "/w1", n)

\* The workers of a session take locks while the session is stopped,
\* unregistered and registered again.
SpecLockStop == Init /\ [][NextLockStop]_vars

\* ------------------------------------------- store calls, no session given

\* The fallback name "swarm" of the path helpers; the session name a of the
\* model stands for it.
Swarm == NameA

\* get_session_triggers_dir(None) and the other path helpers:
\* session or get_active_session() or "swarm".
PathSession(file, ss) ==
  IF GetActiveSession(file, ss) # NoFile THEN GetActiveSession(file, ss) ELSE Swarm

\* check_all_workers_done(None) and get_all_worker_states(None):
\* session = session or get_active_session(); session_info =
\* get_session_info(session) if session else None; the worker count is that of
\* session_info, or config["default_workers"] without one.
CountOf(file, ss) ==
  IF GetActiveSession(file, ss) # NoFile
  THEN NumWorkersOf(GetSessionInfo(ss, GetActiveSession(file, ss)))
  ELSE DefaultWorkers

\* What a call without session finds: the active session, the session its
\* paths lead to, and that session's metadata and triggers.
Found ==
  LET s == PathSession(activeFile, sessions)
  IN [active |-> GetActiveSession(activeFile, sessions), session |-> s,
      info |-> GetSessionInfo(sessions, s), triggers |-> sessions[s].triggers]

\* create_trigger(name) with no session given.
CreateTriggerNone(name) ==
  LET s == PathSession(activeFile, sessions)
  IN /\ sessions' = PutNamespace(sessions, s,
                      [EnsureSessionDirectories(sessions[s]) EXCEPT
                         !.triggers = Touch(@, name)])
     /\ ret' = [op |-> "create", ok |-> TRUE, name |-> name, before |-> Found]
     /\ UNCHANGED <<regFrame, activeFile>>

\* check_all_workers_done() with no session given.
CheckAllWorkersDoneNone ==
  LET s == PathSession(activeFile, sessions)
      all_done == AllWorkersDone(sessions[s].triggers, CountOf(activeFile, sessions))
  IN /\ sessions' = IF all_done
                    THEN PutNamespace(sessions, s,
                           [EnsureSessionDirectories(sessions[s]) EXCEPT
                              !.triggers = Touch(@, AllDone)])
                    ELSE sessions
     /\ ret' = [op |-> "check", ok |-> all_done, before |-> Found]
     /\ UNCHANGED <<regFrame, activeFile>>

\* get_all_worker_states() with no session given: get_worker_state(i) for i in
\* range(num_workers), the record of a worker without a file being the
\* default one.
GetAllWorkerStatesNone ==
  LET s == PathSession(activeFile, sessions)
      files == sessions[s].workerFiles
  IN /\ ret' = [op |-> "get_all", ok |-> TRUE, before |-> Found,
                states |-> [i \in 0 .. (CountOf(activeFile, sessions) - 1) |->
                              IF i \in DOMAIN files THEN GetWorkerState(files, i)
                              ELSE [status |-> "ready"]]]
     /\ UNCHANGED <<regFrame, activeFile, sessions>>

NextFallback ==
  \/ \E name \in {Swarm, NameB}, n \in 1 .. NumWorkers :
       RegisterSession(name, "/w1", n)
  \/ UnregisterSession(NameB)
  \/ \E i \in Workers : CreateTriggerNone(WorkerDone(i))
  \/ CheckAllWorkersDoneNone
  \/ GetAllWorkerStatesNone

\* The fallback session and another one are registered and unregistered while
\* the store is called with no session given.
SpecFallback == Init /\ [][NextFallback]_vars

\* ------------------------------------------- a waiter and the `done` it awaits

\* Worker w has been given a task: its record holds an assignment.
Assigned(w) == "assignment" \in DOMAIN GetWorkerState(workerFiles, w)

\* hyperclaude send 0 TASK --wait, up to send_to_worker: the first command
\* of the round.
SendTask(task) ==
  /\ last = NoCmd
  /\ Send(TRUE, 0, task, NoOpt)

\* send --wait: do_await(f"worker-{worker_id}-done", timeout, session)
WaitStart(timeout) ==
  /\ Assigned(0)
  /\ waiter.pc = "idle"
  /\ AwaitCall(WorkerDone(0), timeout)

\* send --wait: get_worker_state(worker_id, session) once do_await has
\* returned true.
WaitRead ==
  /\ waiter.pc = "returned"
  /\ waiter.result
  /\ reader.pc = "idle"
  /\ GetCall(0)

\* A `done` that creates its trigger where it should write the record.
DoneRecordLate(w, o) ==
  /\ Assigned(w)
  /\ w \notin resultFiles
  /\ pc[w] = "idle"
  /\ triggers' = Touch(triggers, WorkerDone(w))
  /\ pc' = [pc EXCEPT ![w] = "done_result"]
  /\ UNCHANGED <<doneFrame, req, workerFiles, resultFiles, last>>

\* The worker answers its task with one `hyperclaude done`:
\* set_worker_state(worker, session, **state_update) comes first.
DoneRecord(w, o) ==
  /\ Assigned(w)
  /\ w \notin resultFiles
  /\ DoneWrite(w, o)

NextWait ==
  \/ \E task \in Tasks : SendTask(task)
  \/ \E timeout \in Timeouts : WaitStart(timeout)
  \/ AwaitTest
  \/ AwaitExists
  \/ AwaitWake
  \/ Tick
  \/ WaitRead
  \/ GetExists
  \/ GetRead
  \/ \E o \in DoneOpts : DoneRecord(0, o)
  \/ DoneResult(0)
  \/ DoneTrigger(0)
  \/ DoneCheck(0)

\* One round for worker 0: the task is sent, the sender waits for
\* worker-0-done and reads the record, the worker runs `done` step by step.
SpecWait == Init /\ [][NextWait]_vars

Spec == SpecLock

\* ----------------------------------------------------- claims: lock store

\* The paths of a lock record: the newline-separated list a successful
\* acquire wrote into the worker's lock file.
Holds(locks, v, p) == locks[v] # NoFile /\ p \in Range(SplitLines(locks[v]))

\* The (owner, path) pairs an acquire by w of files must report.
HeldByOthers(locks, w, files) ==
  { <<WorkerStem(x[1]), x[2]>> :
      x \in {y \in (Workers \ {w}) \X Range(files) : Holds(locks, y[1], y[2])} }

\* C1: in every interleaving of acquire and release calls of different
\* workers, no path is in the lock records of two workers at once.
C1_NoSharedPath ==
  \A v \in Workers, w \in Workers, p \in Paths :
    v # w => ~(Holds(lockFiles, v, p) /\ Holds(lockFiles, w, p))

\* C2: two lock commands run together on overlapping lists never both report
\* success while both hold a common path.
C2_LockCmdExclusive ==
  \A v \in Workers, w \in Workers, p \in Paths :
    ~( /\ v # w
       /\ out[v].op = "lock" /\ out[v].ok /\ pc[v] = "idle"
       /\ out[w].op = "lock" /\ out[w].ok /\ pc[w] = "idle"
       /\ p \in Range(req[v]) /\ p \in Range(req[w])
       /\ Holds(lockFiles, v, p) /\ Holds(lockFiles, w, p) )

\* C3: check_all_workers_done returns true and creates all-done if and only
\* if worker-i-done exists for every i in [0, worker_count); otherwise it
\* returns false and creates nothing.
C3_BarrierIff ==
  ret.op = "check" =>
    LET n == NumWorkersOf(meta)
        missing == {i \in 0 .. (n - 1) : WorkerDone(i) \notin ret.before}
    IN /\ ret.ok = (missing = {})
       /\ triggers = IF missing = {} THEN ret.before \cup {AllDone}
                     ELSE ret.before

\* worker_count 3: the check that finds worker-0-done, worker-1-done and
\* worker-2-done returns true and has created all-done.
C3_Witness ==
  /\ meta = [num_workers |-> 3]
  /\ ret.op = "check" /\ ret.ok
  /\ AllDone \notin ret.before
  /\ AllDone \in triggers

\* C4: when send assigns a task to worker i, or broadcast assigns one to all
\* workers, worker-i-done of each targeted worker and all-done are absent at
\* the moment the assignment is recorded.
C4_NoStaleTrigger ==
  /\ (last.cmd = "send" /\ last.accepted) =>
       (WorkerDone(last.target) \notin triggers /\ AllDone \notin triggers)
  /\ (last.cmd = "broadcast" /\ last.accepted) =>
       (AllDone \notin triggers
        /\ \A i \in 0 .. (NumWorkersOf(meta) - 1) : WorkerDone(i) \notin triggers)

\* C5: after send to worker i, or broadcast, get(i) is exactly
\* {status: working, assignment: the new task}, with no result, error, branch
\* or files field of the previous task.
C5_AssignResets ==
  /\ (last.cmd = "send" /\ last.accepted) =>
       GetWorkerState(workerFiles, last.target)
         = [status |-> "working", assignment |-> last.task]
  /\ (last.cmd = "broadcast" /\ last.accepted) =>
       \A i \in 0 .. (NumWorkersOf(meta) - 1) :
         GetWorkerState(workerFiles, i)
           = [status |-> "working", assignment |-> last.task]

\* C6: acquire(w, files) returns (false, conflicts) with conflicts exactly the
\* pairs ("worker-v", p), v # w, p in files and in v's lock record, and
\* (true, []) exactly when there is no such pair.
C6_ConflictsExact ==
  ret.op = "acquire" =>
    LET expected == HeldByOthers(ret.before, ret.worker, ret.files) IN
    /\ Range(ret.conflicts) = expected
    /\ ret.ok = (expected = {})

\* C7: an acquire that finds a conflict writes nothing: every worker's lock
\* record is the same after the call as before it.
C7_ConflictWritesNothing ==
  (ret.op = "acquire" /\ ~ret.ok) => lockFiles = ret.before

\* A refused acquire by a worker that has an earlier record of its own.
C7_Witness ==
  /\ ret.op = "acquire" /\ ~ret.ok
  /\ ret.before[ret.worker] # NoFile

C9_OnlyOthersConflict ==
  (ret.op = "acquire" /\ HeldByOthers(ret.before, ret.worker, ret.files) = {})
    => ret.ok

\* C10: release deletes w's lock record and returns true when it existed;
\* it returns false and changes no lock record when w held nothing.
C10_Release ==
  ret.op = "release" =>
    /\ ret.ok = (ret.before[ret.worker] # NoFile)
    /\ lockFiles = [ret.before EXCEPT ![ret.worker] = NoFile]

\* A release by a worker that held nothing while another worker holds a record.
C10_Witness ==
  /\ ret.op = "release" /\ ~ret.ok
  /\ \E v \in Workers : lockFiles[v] # NoFile

\* ---------------------------------------------- claims: worker-state store

\* C11: for every worker id and status X, get(id) after
\* set(id, reset=true, status=X) returns exactly {status: X}, whatever the
\* record held before.
C11_ResetSetsExactly ==
  (ret.op = "set" /\ ret.reset /\ DOMAIN ret.fields = {"status"}) =>
    GetWorkerState(workerFiles, ret.id) = [status |-> ret.fields.status]

\* A reset to status error has just replaced a record (seen by the fields its
\* neighbour still holds, the same calls having filled both).
C11_Witness ==
  /\ ret.op = "set" /\ ret.reset /\ ret.fields = [status |-> "error"]
  /\ ret.id = 0
  /\ GetWorkerState(workerFiles, 0) = [status |-> "error"]
  /\ "result" \in DOMAIN GetWorkerState(workerFiles, 1)

\* C12: set(id, reset=false, fields) yields the previous record with exactly
\* the given fields overwritten or added and every other field preserved; in
\* particular set(id, reset=false, result=r) right after
\* set(id, reset=true, status=working, assignment=a) gives
\* {status: working, assignment: a, result: r}.
C12_MergePreserves ==
  [][ (ret'.op = "set" /\ ~ret'.reset) =>
        LET old == GetWorkerState(workerFiles, ret'.id)
            new == GetWorkerState(workerFiles', ret'.id)
            given == ret'.fields
        IN /\ DOMAIN new = DOMAIN old \cup DOMAIN given
           /\ \A k \in DOMAIN given : new[k] = given[k]
           /\ \A k \in DOMAIN old \ DOMAIN given : new[k] = old[k]
           /\ ( /\ ret.op = "set" /\ ret.reset /\ ret.id = ret'.id
                /\ ret.fields = [status |-> "working", assignment |-> <<"t", "1">>]
                /\ given = [result |-> "r1"] )
              => new = [status |-> "working", assignment |-> <<"t", "1">>,
                        result |-> "r1"] ]_vars

\* A merge of result=r1 has left the assignment of the record in place.
C12_Witness ==
  /\ ret.op = "set" /\ ~ret.reset /\ ret.fields = [result |-> "r1"]
  /\ GetWorkerState(workerFiles, ret.id)
       = [status |-> "working", assignment |-> <<"t", "1">>, result |-> "r1"]

\* C13: get(session, worker_id) is total: it returns {status: ready} when the
\* record is absent or does not parse (a half-written record included) and
\* never raises.
C13_GetTotal ==
  reader.pc = "returned" =>
    /\ ~reader.raised
    /\ (reader.seen = NoState \/ ~Parses(reader.seen))
         => reader.value = [status |-> "ready"]

\* C14: after any sequence of send, broadcast, done, clear and reset
\* commands, get(i) of every worker i is a record with a status field whose
\* value is ready, working, complete or error.
C14_StatusAlways ==
  \A i \in Workers :
    LET r == GetWorkerState(workerFiles, i)
    IN "status" \in DOMAIN r /\ r.status \in Statuses

\* Worker 0 has reported an error on the task it was sent while worker 1 has
\* no record.
C14_Witness ==
  /\ last.cmd = "done" /\ last.target = 0
  /\ GetWorkerState(workerFiles, 0).status = "error"
  /\ "assignment" \in DOMAIN GetWorkerState(workerFiles, 0)
  /\ workerFiles[1] = NoState
  /\ GetWorkerState(workerFiles, 1) = [status |-> "ready"]

\* ---------------------------------------------------- claims: triggers

\* C15: creating a trigger that already exists leaves it existing and raises
\* no error; clearing a trigger that does not exist raises no error and
\* leaves it absent. Either call changes no other trigger.
C15_TriggerIdempotent ==
  /\ ret.op = "create" =>
       (ret.ok /\ ret.name \in triggers /\ triggers = ret.before \cup {ret.name})
  /\ ret.op = "clear" =>
       (ret.ok /\ ret.name \notin triggers /\ triggers = ret.before \ {ret.name})

\* Worker 0 has signalled completion a second time while another trigger
\* exists.
C15_Witness ==
  /\ ret.op = "create" /\ ret.name = WorkerDone(0)
  /\ WorkerDone(0) \in ret.before
  /\ triggers = ret.before
  /\ "x" \in triggers

\* C16: once a trigger is created it exists until clear(name), clear_all,
\* reset or unregister runs; no other store operation (set/get state, await,
\* check_all_workers_done, acquire, release, register, create) removes it.
C16_TriggerMonotonic ==
  [][\A name \in StoreNames \cup {AllDone} :
       (name \in triggers /\ name \notin triggers') =>
         (ClearTrigger(name) \/ ClearAllTriggers \/ ResetSwarmState \/ Unregister)]_vars

\* The barrier and the markers have outlived a state write and a lock
\* acquisition, and an await has just found worker 0's marker.
C16_Witness ==
  /\ ret.op = "await" /\ ret.ok /\ ret.name = WorkerDone(0)
  /\ {WorkerDone(0), AllDone, "x"} \subseteq triggers
  /\ workerFiles[0] # NoState
  /\ lockFiles[0] # NoFile

\* C17: await(name, timeout) on a trigger that never appears terminates: it
\* returns false, without raising, once the timeout has elapsed and not
\* before.
C17_AwaitTimesOut ==
  /\ [](waiter.pc = "returned" =>
          (waiter.result \/
           waiter.at - waiter.start >= waiter.timeout * TicksPerSecond))
  /\ \A name \in AwaitNames :
       [](( /\ waiter.pc \in {"test", "exists", "sleep"}
            /\ waiter.name = name
            /\ [](name \notin triggers) )
          => <>(waiter.pc = "returned" /\ ~waiter.result))

\* An await with a timeout of one second has returned false.
C17_Witness ==
  /\ waiter.pc = "returned" /\ ~waiter.result
  /\ waiter.timeout = 1
  /\ waiter.at - waiter.start >= TicksPerSecond
  /\ waiter.name \notin triggers

\* C18: await never creates or removes a trigger, whether it returns true or
\* false, so a trigger that appears after a timed-out await is there for a
\* later await.
C18_AwaitReadsOnly ==
  [][waiter' # waiter => triggers' = triggers]_vars

\* A later await (started after time 0) has returned true and the trigger it
\* found is still there.
C18_Witness ==
  /\ waiter.pc = "returned" /\ waiter.result
  /\ waiter.start > 0
  /\ waiter.name \in triggers

\* ------------------------------------------------ claims: session registry

\* A namespace with no worker record, no trigger and no lock record.
NamespaceClean ==
  /\ \A i \in Workers : GetWorkerState(workerFiles, i) = [status |-> "ready"]
  /\ triggers = {}
  /\ \A w \in Workers : lockFiles[w] = NoFile

\* C19 as stated: after unregister(name) get_info(name) is absent, every
\* worker record reads {status: ready} and there is no trigger and no lock
\* record; unregister of a name that is not registered changes nothing.
C19_UnregisterAsStated ==
  [][Unregister =>
       /\ meta' = NoMeta /\ NamespaceClean'
       /\ meta = NoMeta =>
            UNCHANGED <<triggers, workerFiles, lockFiles, resultFiles>>]_vars

\* C19 (amended): after unregister(name), of a registered name or of one that
\* is not registered, get_info(name) is absent, every worker record reads
\* {status: ready} and there is no trigger and no lock record; when the name
\* has no namespace content the call changes nothing.
C19_UnregisterRemovesAll ==
  [][Unregister =>
       /\ meta' = NoMeta /\ NamespaceClean'
       /\ (meta = NoMeta /\ NamespaceClean /\ resultFiles = {}) =>
            UNCHANGED <<triggers, workerFiles, lockFiles, resultFiles>>]_vars

\* An unregister has just removed a registered session that held a worker
\* record, a trigger and a lock record.
C19_Witness ==
  /\ ret.op = "unregister"
  /\ ret.before.meta # NoMeta
  /\ ret.before.workerFiles[0] # NoState
  /\ WorkerDone(0) \in ret.before.triggers
  /\ ret.before.lockFiles[1] # NoFile
  /\ meta = NoMeta /\ NamespaceClean

\* C20: a register(name) that follows unregister(name) starts from a clean
\* namespace: all worker records read {status: ready}, no trigger and no lock
\* record exist, even with a worker command of before the unregister still
\* in flight.
C20_RegisterStartsClean ==
  [][(ret.op = "unregister" /\ ret'.op = "register") => NamespaceClean']_vars

\* Whether session.json exists under the name.
HasMetadata(ss, name) == name \in DOMAIN ss /\ ss[name].metadata # NoState

\* C21: right after unregister(name), the stored active-session pointer is
\* cleared when name was the active session, and is the pointer of before
\* when it was not.
C21_UnregisterClearsPointer ==
  ret.op = "unregister" =>
    IF GetActiveSession(ret.before.activeFile, ret.before.sessions) = ret.name
    THEN activeFile = NoFile
    ELSE activeFile = ret.before.activeFile

\* C22: right after register(name, workspace, n), get_info(name) gives that
\* workspace and that worker count and get_active() gives name, also when
\* the name was registered before with other values.
C22_RegisterThenLookup ==
  ret.op = "register" =>
    /\ HasMetadata(sessions, ret.name)
    /\ GetSessionInfo(sessions, ret.name).workspace = ret.workspace
    /\ GetSessionInfo(sessions, ret.name).num_workers = ret.n
    /\ GetActiveSession(activeFile, sessions) = ret.name

\* A name is registered a second time, with another workspace and another
\* worker count.
C22_Witness ==
  /\ ret.op = "register"
  /\ HasMetadata(ret.before.sessions, ret.name)
  /\ GetSessionInfo(ret.before.sessions, ret.name).workspace # ret.workspace
  /\ GetSessionInfo(ret.before.sessions, ret.name).num_workers # ret.n

\* C23: register with a name outside the grammar fails and changes nothing:
\* no namespace, no metadata, the active pointer as before.
C23_BadNameRejected ==
  (ret.op = "register" /\ ~ValidSessionName(ret.name)) =>
    /\ ~ret.ok
    /\ sessions = ret.before.sessions
    /\ activeFile = ret.before.activeFile

\* C24: get_active() gives a name only when session.json exists under that
\* name, and gives absent while the name the pointer holds is not
\* registered; set_active(name) stores name whether it is registered or not.
C24_ActiveOnlyIfRegistered ==
  /\ ret.op = "ask" =>
       /\ ret.active # NoFile => HasMetadata(sessions, ret.active)
       /\ (activeFile # NoFile /\ ~HasMetadata(sessions, Strip(activeFile)))
            => ret.active = NoFile
  /\ ret.op = "set_active" =>
       /\ activeFile = ret.name
       /\ sessions = ret.before.sessions

\* The pointer holds a name that is not registered, and get_active() is asked.
C24_Witness ==
  /\ ret.op = "ask"
  /\ activeFile # NoFile
  /\ ~HasMetadata(sessions, Strip(activeFile))
  /\ ret.active = NoFile

\* The store calls of C25, by the name they return under.
StoreOps ==
  {"set", "clear_states", "create", "clear", "clear_all", "check", "acquire",
   "release", "reset"}

\* C25: a store call made with session A leaves the namespace of every other
\* session (records, triggers, lock records, protocol, phase) as it was.
C25_SessionsIsolated ==
  [][ret'.op \in StoreOps =>
       \A t \in SessionNames : t # ret'.session => sessions'[t] = sessions[t]]_vars

\* Session a is reset while session b holds a record, a trigger, a lock
\* record, a protocol and a phase.
C25_Witness ==
  /\ ret.op = "reset"
  /\ ret.session = NameA
  /\ sessions[NameB].workerFiles[0] # NoState
  /\ sessions[NameB].triggers # {}
  /\ sessions[NameB].lockFiles[0] # NoFile
  /\ sessions[NameB].protocol # NoValue
  /\ sessions[NameB].phase # NoValue

\* The directories every write is to leave in place.
StoreDirs == {"state_workers", "triggers", "locks", "results"}

\* C27: right after a write (set_worker_state, create_trigger, set_phase,
\* set_active_protocol of an installed protocol, acquire_file_locks) the
\* worker-state, triggers, locks and results directories of the session exist.
C27_NamespaceComplete ==
  (/\ ret.op \in {"set", "create", "set_phase", "set_protocol", "acquire"}
   /\ ret.op = "set_protocol" => ret.ok)
    => StoreDirs \subseteq sessions[ret.session].dirs

\* C26: a process waiting for the master lock in its acquire is held back
\* only while a process of its own session holds that session's master lock,
\* whatever master locks are held in other sessions.
C26_OtherSessionNeverBlocks ==
  \A p \in Procs :
    (procs[p].pc = "flock" /\ sessions[p[1]].master = {}) => ENABLED AcqFlockIn(p)

\* A worker of session a waits for the master lock of a, which is free, while
\* a worker of session b holds the master lock of b.
C26_Witness ==
  /\ procs[<<NameA, 0>>].pc = "flock"
  /\ sessions[NameA].master = {}
  /\ sessions[NameB].master # {}

\* C28: send or broadcast with a message that is empty or longer than the
\* maximum length leaves the triggers and the worker records as they were.
C28_InvalidMessageChangesNothing ==
  [][(/\ last'.cmd \in {"send", "broadcast"}
      /\ (last'.task = <<>> \/ TextLen(last'.task) > MaxMessageLength))
     => (triggers' = triggers /\ workerFiles' = workerFiles)]_vars

\* C29: after any sequence of send, done, lock and unlock, a worker record, a
\* worker-i-done trigger or a lock record exists only for the ids i below the
\* worker count of the session.
C29_OnlyWorkersOfSession ==
  \A i \in Workers :
    i >= NumWorkersOf(meta) =>
      /\ workerFiles[i] = NoState
      /\ WorkerDone(i) \notin triggers
      /\ lockFiles[i] = NoFile

\* C30: a deleting call (reset_swarm_state, release, the unlock command)
\* whose target another process removes between its existence check and its
\* delete returns without an error.
C30_RaceLossSwallowed ==
  \A p \in Workers :
    out[p].op \in {"reset", "unlock", "release"} => ~out[p].raised

\* C31: right after reset_swarm_state every worker record reads
\* {status: ready}, no trigger exists and protocol and phase are unset; a
\* reset that follows a reset raises nothing and leaves what it found.
C31_ResetIdempotent ==
  ret.op = "reset" =>
    /\ ret.ok
    /\ \A i \in Workers : GetWorkerState(workerFiles, i) = [status |-> "ready"]
    /\ triggers = {}
    /\ protocol = NoValue
    /\ phase = NoValue
    /\ ret.prev = "reset" => SwarmState = ret.before

\* A reset is applied to a state a reset has just left.
C31_Witness ==
  /\ ret.op = "reset"
  /\ ret.prev = "reset"

\* C32: right after a successful acquire(w, files), list_all maps worker-w to
\* exactly the list files, and holds no entry for a worker without a lock
\* record.
C32_ListAllAsAcquired ==
  (ret.op = "acquire" /\ ret.ok) =>
    /\ WorkerStem(ret.worker) \in DOMAIN GetAllLocks(lockFiles)
    /\ GetAllLocks(lockFiles)[WorkerStem(ret.worker)] = ret.files
    /\ \A w \in Workers :
         lockFiles[w] = NoFile => WorkerStem(w) \notin DOMAIN GetAllLocks(lockFiles)

\* C33: an acquire that waits for the master lock gets it and returns,
\* whatever way the acquires before it left the critical section (written,
\* conflict, exception), and no process holds the master lock once its
\* acquire has returned.
C33_AcquireTerminates ==
  /\ \A w \in Workers : (pc[w] = "flock") ~> (pc[w] = "idle")
  /\ [](\A w \in Workers : pc[w] = "idle" => w \notin master)

\* An acquire has left by an exception and another worker holds the master
\* lock after it.
C33_Witness ==
  \E w \in Workers, v \in Workers :
    /\ v # w
    /\ out[w].op = "acquire"
    /\ "raised" \in DOMAIN out[w]
    /\ v \in master

\* Both writers have returned, each from a call that read the record before the
\* other's field was in it.
BothMergedBlind(p, q) ==
  /\ out[p].op = "merged"
  /\ out[q].op = "merged"
  /\ DOMAIN out[p].fields \cap DOMAIN out[q].fields = {}
  /\ DOMAIN out[p].fields \cap DOMAIN out[q].seen = {}
  /\ DOMAIN out[q].fields \cap DOMAIN out[p].seen = {}

\* C34: when two processes merge different fields into one worker's record
\* and each reads the record before the other has written, the record they
\* leave lacks the field of one of them.
C34_UpdateLost ==
  \A p \in Writers, q \in Writers :
    (p # q /\ BothMergedBlind(p, q)) =>
      ~(DOMAIN out[p].fields \cup DOMAIN out[q].fields
          \subseteq DOMAIN GetWorkerState(workerFiles, 0))

\* Two such updates have run and the record lacks the result one of them set.
C34_Witness ==
  /\ BothMergedBlind(0, 1)
  /\ out[0].fields = [result |-> "r1"]
  /\ "result" \notin DOMAIN GetWorkerState(workerFiles, 0)

\* Every worker of the session has run `done` to its end and none is running.
AllSignalled ==
  \A w \in 0 .. (NumWorkersOf(meta) - 1) : out[w].op = "done" /\ pc[w] = "idle"

\* C35: when every worker of a registered session has run `done` and no
\* trigger was cleared, all-done exists once the last `done` has returned,
\* however the steps of the commands interleave.
C35_BarrierFires == AllSignalled => AllDone \in triggers

\* All have returned, and not all of them saw the barrier complete.
C35_Witness ==
  /\ AllSignalled
  /\ AllDone \in triggers
  /\ \E w \in Workers : ~out[w].ok

\* C36: with broadcast, done and clear interleaved, in every state where no
\* command is running all-done exists only together with the marker of
\* every worker of the session.
C36_NoLoneBarrier ==
  ((\A w \in Workers : pc[w] = "idle") /\ AllDone \in triggers)
    => AllWorkersDone(triggers, NumWorkersOf(meta))

\* C37: an await on a trigger that exists when the call begins and is not
\* cleared while it runs returns true, whatever the timeout.
C37_AwaitFindsExisting ==
  (ret.op = "await" /\ ret.name \in triggers) => ret.ok

\* C38: at most one process of a session at a time is inside the critical
\* section of acquire, also while stop_swarm or unregister runs.
C38_OneInCriticalSection ==
  \A s \in {NameA, NameB} : Cardinality(InCritical(s)) <= 1

\* The last call was made with no session active and found the fallback
\* session registered.
OnRegisteredFallback(op) ==
  /\ ret.op = op
  /\ "before" \in DOMAIN ret
  /\ ret.before.active = NoFile
  /\ ret.before.session = Swarm
  /\ Truthy(ret.before.info)

\* C39: with no session given and none active, the barrier and get_all work
\* on the fallback session with its worker count n: the barrier fires
\* exactly when worker-0-done .. worker-(n-1)-done exist, and get_all returns
\* n records.
C39_FallbackWorkerCount ==
  /\ OnRegisteredFallback("check") =>
       (ret.ok <=> AllWorkersDone(ret.before.triggers, ret.before.info.num_workers))
  /\ OnRegisteredFallback("get_all") =>
       DOMAIN ret.states = 0 .. (ret.before.info.num_workers - 1)

\* The waiter has seen worker-0-done and get_worker_state(0) has returned.
WaiterHasRead ==
  /\ waiter.pc = "returned"
  /\ waiter.result
  /\ reader.pc = "returned"

\* C40: a process that has seen the worker-i-done created by a `done` reads
\* a record whose status is complete or error, never working.
C40_FinalRecordBeforeTrigger ==
  WaiterHasRead =>
    /\ ~reader.raised
    /\ reader.value.status \in {"complete", "error"}

\* The waiter has read the record of a `done --error` that had not returned
\* yet.
C40_Witness ==
  /\ WaiterHasRead
  /\ reader.value.status = "error"
  /\ pc[0] # "idle"

====
